---- MODULE Spec2Model ----
(***************************************************************************)
(* Model of the transcript core of lib/analysis.py: the segmenter          *)
(* (prepare_japanese_segments and its helpers), the phrase aligner         *)
(* (align_gpt_phrase_to_deepgram_words, _align_fuzzy, _align_fallback, as  *)
(* threaded by analyze_japanese_segment) and the vocabulary accumulator    *)
(* (collect_vocab_with_kanji).                                             *)
(*                                                                         *)
(* Times are integers.  The segmenter and the aligner use centiseconds of  *)
(* the original recording (0.05 s = 5).  The vocabulary resolver works in  *)
(* the display domain, where t / 0.75 = 4t/3 appears, so its times are in  *)
(* thirds of a centisecond (1 cs = 3 units): every value the code computes *)
(* from centisecond inputs is then an integer.                             *)
(***************************************************************************)
EXTENDS Integers, Sequences, FiniteSets, TLC

VARIABLES
    all_words,      \* segmenter input: the transcript's words
    utterances,     \* segmenter input: the utterance hints (<< >> when absent)
    word_groups,    \* prepare_japanese_segments: groups before the merge pass
    merged,         \* prepare_japanese_segments: groups after the merge pass
    segments,       \* prepare_japanese_segments: the word lists of the returned segments
    seg_pc,         \* "input" before the call, "done" after it
    FUZZY_MATCHING_AVAILABLE,   \* whether rapidfuzz could be imported
    deepgram_words, \* aligner input: the words of one segment
    call,           \* the last direct call of the aligner: its arguments and result
    last_word_index,\* analyze_japanese_segment: the cursor threaded through the phrases
    phrases,        \* analyze_japanese_segment: the timing written to each phrase so far
    transcript,     \* vocabulary: the words of the recording's transcript
    vocab_map,      \* vocabulary: the accumulator, surface form -> entry
    vocab_call,     \* collect_vocab_with_kanji: the arguments of the last call
    found,          \* collect_vocab_with_kanji: what the last call resolved, word by word
    n_calls         \* vocabulary: calls of collect_vocab_with_kanji still allowed

seg_vars == <<all_words, utterances, word_groups, merged, segments, seg_pc>>
env_vars == <<FUZZY_MATCHING_AVAILABLE, deepgram_words>>
thread_vars == <<last_word_index, phrases>>
vocab_vars == <<transcript, vocab_map, vocab_call, found, n_calls>>
vars == <<seg_vars, env_vars, call, thread_vars, vocab_vars>>

----------------------------------------------------------------------------
(* Bounds of the segmenter's inputs *)

MaxWords == 23
MaxPunct == 2
MaxHints == 2

\* the segmenter on words without punctuation: the longest input
MaxPlainWords == 64

(* Bounds of the aligner's inputs *)

MaxAlignWords == 3
MaxPhraseLen == 3
MaxPhrases == 3

(* Bounds of the vocabulary resolver's inputs *)

VocabToks == 3
MaxCalls == 2
MaxToks == 9

\* the normalizer: the longest text tried
MaxTextLen == 4

\* word sync extraction: the longest transcript tried
MaxSyncWords == 3

(* Program constants.  SCALE, TIME_OFFSET, MIN_END and MIN_WINDOW are the   *)
(* display domain's 1 / 0.75, 0.3 s, 0.01 s and 0.15 s in thirds of a       *)
(* centisecond: a time of t centiseconds is SCALE * t thirds after the      *)
(* division by the speed factor.                                            *)

MAX_WORDS == 20
FALLBACK_MAX == 20
MIN_FRAGMENT == 3
SPLIT_MIN == 8
HINT_TOL == 5
MIN_MATCH_SCORE == 70
MIN_VOCAB_SCORE == 90
SCALE == 4
TIME_OFFSET == 90
MIN_END == 3
MIN_WINDOW == 45
MAX_SPAN == 8

----------------------------------------------------------------------------
(* Words of the segmenter.  A word is [start, end, p]: p is what its       *)
(* punctuated_word contains: nothing, a "、", or one of "。？！".            *)
(* Word i of the input starts at WordStart(i): the words of a transcript   *)
(* follow each other in time.                                              *)
(* A group is a sequence of indices into all_words (the code's groups hold *)
(* references to the word dicts of all_words).                             *)

NoPunct == "none"
Comma == "comma"
Stop == "stop"

(* the substitution that takes a word starting before the hint into its group *)
RECURSIVE ScanUtterance_TakeEarly(_, _, _, _)
ScanUtterance_TakeEarly(words, utt, word_idx, grp) ==
    IF word_idx > Len(words) THEN <<grp, word_idx>>
    ELSE IF words[word_idx].start <= utt.end + HINT_TOL
    THEN ScanUtterance_TakeEarly(words, utt, word_idx + 1, Append(grp, word_idx))
    ELSE <<grp, word_idx>>

RECURSIVE ScanUtterance(_, _, _, _)
ScanUtterance(words, utt, word_idx, grp) ==
    IF word_idx > Len(words) THEN <<grp, word_idx>>
    ELSE LET ws == words[word_idx].start IN
         IF ws >= utt.start - HINT_TOL /\ ws <= utt.end + HINT_TOL
         THEN ScanUtterance(words, utt, word_idx + 1, Append(grp, word_idx))
         ELSE IF ws > utt.end + HINT_TOL
         THEN <<grp, word_idx>>
         ELSE ScanUtterance(words, utt, word_idx + 1, grp)

RECURSIVE UtteranceLoop(_, _, _, _, _)
UtteranceLoop(utts, words, k, word_idx, groups) ==
    IF k > Len(utts) THEN <<groups, word_idx>>
    ELSE LET r == ScanUtterance(words, utts[k], word_idx, << >>) IN
         UtteranceLoop(utts, words, k + 1, r[2],
                       IF r[1] # << >> THEN Append(groups, r[1]) ELSE groups)

Leftover(words, word_idx) ==
    IF word_idx <= Len(words)
    THEN << [i \in 1..(Len(words) - word_idx + 1) |-> word_idx + i - 1] >>
    ELSE << >>

_groups_from_utterances(utts, words) ==
    LET r == UtteranceLoop(utts, words, 1, 1, << >>) IN
    r[1] \o Leftover(words, r[2])

RECURSIVE FallbackLoop(_, _, _, _)
FallbackLoop(words, i, current, groups) ==
    IF i > Len(words)
    THEN IF current # << >> THEN Append(groups, current) ELSE groups
    ELSE LET cur == Append(current, i)
             is_punct == words[i].p = Stop
         IN  IF is_punct \/ Len(cur) >= FALLBACK_MAX \/ i = Len(words)
             THEN FallbackLoop(words, i + 1, << >>, Append(groups, cur))
             ELSE FallbackLoop(words, i + 1, cur, groups)

(* the substitution that cuts the words in two halves *)
_groups_from_words_fallback_Halves(words) ==
    LET n == Len(words)
        h == n \div 2
    IN  IF h = 0 THEN << [i \in 1..n |-> i] >>
        ELSE << [i \in 1..h |-> i], [i \in 1..(n - h) |-> h + i] >>

_groups_from_words_fallback(words) == FallbackLoop(words, 1, << >>, << >>)

ExtendLast(groups, more) ==
    [groups EXCEPT ![Len(groups)] = @ \o more]

RECURSIVE MergeLoop(_, _, _, _)
MergeLoop(groups, k, mrg, carry) ==
    IF k > Len(groups)
    THEN IF carry # << >>
         THEN IF mrg # << >> THEN ExtendLast(mrg, carry) ELSE << carry >>
         ELSE mrg
    ELSE LET combined == carry \o groups[k] IN
         IF Len(combined) <= MIN_FRAGMENT /\ Len(mrg) = 0
         THEN MergeLoop(groups, k + 1, mrg, combined)
         ELSE IF Len(combined) <= MIN_FRAGMENT
         THEN MergeLoop(groups, k + 1, ExtendLast(mrg, combined), << >>)
         ELSE MergeLoop(groups, k + 1, Append(mrg, combined), << >>)

(* MergeTiny with the tiny-group test dropped: every group is emitted as it is *)
MergeTiny_NoMerge(groups) == groups

MergeTiny(groups) == MergeLoop(groups, 1, << >>, << >>)

RECURSIVE SplitLoop(_, _, _, _, _, _)
SplitLoop(words, grp, max_words, i, current, result) ==
    IF i > Len(grp)
    THEN IF current # << >>
         THEN IF result # << >> /\ Len(current) <= MIN_FRAGMENT
              THEN ExtendLast(result, current)
              ELSE Append(result, current)
         ELSE result
    ELSE LET cur == Append(current, grp[i])
             has_comma == words[grp[i]].p # NoPunct
         IN  IF (has_comma /\ Len(cur) >= SPLIT_MIN) \/ Len(cur) >= max_words
             THEN SplitLoop(words, grp, max_words, i + 1, << >>, Append(result, cur))
             ELSE SplitLoop(words, grp, max_words, i + 1, cur, result)

(* the substitution that only cuts after max_words words *)
_split_long_group_HardOnly(words, grp, max_words) ==
    << SubSeq(grp, 1, max_words), SubSeq(grp, max_words + 1, Len(grp)) >>

_split_long_group(words, grp, max_words) ==
    SplitLoop(words, grp, max_words, 1, << >>, << >>)

RECURSIVE SplitAll(_, _, _)
SplitAll(words, groups, k) ==
    IF k > Len(groups) THEN << >>
    ELSE (IF Len(groups[k]) <= MAX_WORDS
          THEN << groups[k] >>
          ELSE _split_long_group(words, groups[k], MAX_WORDS))
         \o SplitAll(words, groups, k + 1)

prepare_groups(utts, words) ==
    IF utts # << >>
    THEN _groups_from_utterances(utts, words)
    ELSE _groups_from_words_fallback(words)

NonEmptyGroup(g) == g # << >>

(* The three passes of prepare_japanese_segments: <<word_groups, merged, final>> *)
prepare_japanese_segments(utts, words) ==
    IF words = << >> THEN << << >>, << >>, << >> >>
    ELSE LET g == prepare_groups(utts, words)
             m == MergeTiny(g)
             f == SplitAll(words, m, 1)
         IN  << g, m, SelectSeq(f, NonEmptyGroup) >>

----------------------------------------------------------------------------
(* Inputs of the segmenter.  Word i lasts from WordStart(i) to WordEnd(i): *)
(* 0.1 s each, back to back.  Without hints up to MaxPunct words carry     *)
(* punctuation; with hints at most one does, and the hints are up to       *)
(* MaxHints intervals between the times of HintTimes (0.45 s puts a word   *)
(* start exactly on a tolerance boundary: 0.40 = 0.45 - 0.05 and           *)
(* 0.50 = 0.45 + 0.05).                                                    *)

WordStart(i) == 10 * (i - 1)
WordEnd(i) == 10 * i

RECURSIVE PunctSeqs(_, _)
PunctSeqs(n, k) ==
    IF n = 0 THEN { << >> }
    ELSE { Append(s, NoPunct) : s \in PunctSeqs(n - 1, k) }
         \cup (IF k > 0
               THEN { Append(s, c) : s \in PunctSeqs(n - 1, k - 1), c \in {Comma, Stop} }
               ELSE {})

MkWords(ps) ==
    [i \in 1..Len(ps) |-> [start |-> WordStart(i), end |-> WordEnd(i), p |-> ps[i]]]

HintTimes == {0, 45, 130}

Hint ==
    { [start |-> x[1], end |-> x[2]] : x \in { y \in HintTimes \X HintTimes : y[1] <= y[2] } }

RECURSIVE HintSeqs(_)
HintSeqs(k) ==
    IF k = 0 THEN { << >> }
    ELSE HintSeqs(k - 1)
         \cup { Append(s, h) : s \in {t \in HintSeqs(k - 1) : Len(t) = k - 1}, h \in Hint }

SegInit ==
    /\ \/ /\ utterances = << >>
          /\ \E n \in 0..MaxWords : \E ps \in PunctSeqs(n, MaxPunct) :
                all_words = MkWords(ps)
       \/ /\ \E hs \in HintSeqs(MaxHints) \ { << >> } : utterances = hs
          /\ \E n \in 0..MaxWords : \E ps \in PunctSeqs(n, 1) :
                all_words = MkWords(ps)
    /\ word_groups = << >>
    /\ merged = << >>
    /\ segments = << >>
    /\ seg_pc = "input"

(* prepare_japanese_segments, the whole call *)
PrepareSegments ==
    /\ seg_pc = "input"
    /\ LET r == prepare_japanese_segments(utterances, all_words)
       IN  /\ word_groups' = r[1]
           /\ merged' = r[2]
           /\ segments' = r[3]
    /\ seg_pc' = "done"
    /\ UNCHANGED <<all_words, utterances, env_vars, call, thread_vars, vocab_vars>>

(* words without punctuation, with and without utterance hints *)
PlainInit ==
    /\ utterances \in HintSeqs(MaxHints)
    /\ \E n \in 0..MaxPlainWords : all_words = MkWords([i \in 1..n |-> NoPunct])
    /\ word_groups = << >>
    /\ merged = << >>
    /\ segments = << >>
    /\ seg_pc = "input"

SegIdle ==
    /\ all_words = << >>
    /\ utterances = << >>
    /\ word_groups = << >>
    /\ merged = << >>
    /\ segments = << >>
    /\ seg_pc = "idle"

----------------------------------------------------------------------------
(* Text.  A text is a sequence of characters; "(" stands for the bracket    *)
(* characters, "_" for the ASCII whitespace and "U3000" for the ideographic *)
(* space normalize_japanese removes, "F7" for a full-width digit and "7"    *)
(* for its ASCII form.                                                      *)

Whitespace == {"_", "U3000"}

StripChars == {"("} \cup Whitespace

NotStripped(c) == c \notin StripChars

(* str.strip(): whitespace removed from both ends *)
RECURSIVE LStrip(_)
LStrip(text) ==
    IF text # << >> /\ Head(text) \in Whitespace THEN LStrip(Tail(text)) ELSE text

RECURSIVE RStrip(_)
RStrip(text) ==
    IF text # << >> /\ text[Len(text)] \in Whitespace
    THEN RStrip(SubSeq(text, 1, Len(text) - 1)) ELSE text

Strip(text) == RStrip(LStrip(text))

(* the substitution that leaves the text as it is *)
normalize_japanese_StripOnly(text) == Strip(text)

normalize_japanese(text) ==
    IF text = << >> THEN << >> ELSE Strip(SelectSeq(text, NotStripped))

Full2Half(c) == IF c = "F7" THEN "7" ELSE c

norm_for_alignment(text) ==
    LET t == normalize_japanese(text) IN [i \in 1..Len(t) |-> Full2Half(t[i])]

(* Scores are exact fractions <<numerator, denominator>> in lowest terms. *)

RECURSIVE Gcd(_, _)
Gcd(a, b) == IF b = 0 THEN a ELSE Gcd(b, a % b)

Frac(num, den) ==
    IF num = 0 THEN <<0, 1>>
    ELSE LET g == Gcd(num, den) IN <<num \div g, den \div g>>

FracGT(x, y) == x[1] * y[2] > y[1] * x[2]
FracGE(x, y) == x[1] * y[2] >= y[1] * x[2]
Whole(n) == <<n, 1>>

Max2(a, b) == IF a >= b THEN a ELSE b

(* Length of the longest common subsequence of x and y, row by row:        *)
(* prev[j + 1] is the length for x[1..i-1] and y[1..j].                     *)
RECURSIVE LcsRow(_, _, _, _, _)
LcsRow(xi, y, prev, j, cur) ==
    IF j > Len(y) THEN cur
    ELSE LcsRow(xi, y, prev, j + 1,
                Append(cur, IF xi = y[j] THEN prev[j] + 1 ELSE Max2(prev[j + 1], cur[j])))

RECURSIVE LcsRows(_, _, _, _)
LcsRows(x, y, i, prev) ==
    IF i > Len(x) THEN prev[Len(y) + 1]
    ELSE LcsRows(x, y, i + 1, LcsRow(x[i], y, prev, 1, <<0>>))

LCS(x, y) == LcsRows(x, y, 1, [j \in 1..(Len(y) + 1) |-> 0])

(* rapidfuzz's fuzz.ratio: the normalized Indel similarity,                 *)
(* 100 * 2 * LCS / (len(x) + len(y)), and 100 for two empty strings.        *)
fuzz_ratio(x, y) ==
    IF Len(x) + Len(y) = 0 THEN Whole(100)
    ELSE Frac(200 * LCS(x, y), Len(x) + Len(y))

(* score * (1 + 0.01 * len(window_text)) *)
adj_score(score, window_text) ==
    Frac(score[1] * (100 + Len(window_text)), score[2] * 100)

----------------------------------------------------------------------------
(* The aligner.  Indices are the code's: search_start_index counts the      *)
(* words already claimed, so the first eligible word is words[start_idx+1]  *)
(* in the 1-based sequences used here.                                      *)

RECURSIVE JoinNorm(_, _, _)
(* "".join(normalize_japanese(w.text) for w in words[si:ei]) *)
JoinNorm(words, si, ei) ==
    IF si >= ei THEN << >>
    ELSE normalize_japanese(words[si + 1].text) \o JoinNorm(words, si + 1, ei)

Result(s, e, score, idx) == [start |-> s, end |-> e, score |-> score, next |-> idx]

(* the substitution in which a window that ties with the best replaces it *)
RECURSIVE FuzzyScan_LastBest(_, _, _, _, _, _)
FuzzyScan_LastBest(normalized_phrase, words, start_idx, window_size, si, best) ==
    LET n == Len(words) IN
    IF window_size > n - start_idx THEN best
    ELSE IF si > n - window_size
    THEN FuzzyScan_LastBest(normalized_phrase, words, start_idx, window_size + 1,
                            start_idx, best)
    ELSE LET ei == si + window_size
             window_text == JoinNorm(words, si, ei)
             adj == adj_score(fuzz_ratio(normalized_phrase, window_text), window_text)
         IN  FuzzyScan_LastBest(normalized_phrase, words, start_idx, window_size, si + 1,
                                IF window_text # << >> /\ FracGE(adj, best.score)
                                THEN [score |-> adj, si |-> si, ei |-> ei - 1]
                                ELSE best)

(* lines 365-383 of _align_fuzzy: the scan of all windows, by window size   *)
(* and then by start index; best is [score, si, ei].                        *)
RECURSIVE FuzzyScan(_, _, _, _, _, _)
FuzzyScan(normalized_phrase, words, start_idx, window_size, si, best) ==
    LET n == Len(words) IN
    IF window_size > n - start_idx THEN best
    ELSE IF si > n - window_size
    THEN FuzzyScan(normalized_phrase, words, start_idx, window_size + 1, start_idx, best)
    ELSE LET ei == si + window_size
             window_text == JoinNorm(words, si, ei)
         IN  IF window_text = << >>
             THEN FuzzyScan(normalized_phrase, words, start_idx, window_size, si + 1, best)
             ELSE LET score == fuzz_ratio(normalized_phrase, window_text)
                      adj == adj_score(score, window_text)
                  IN  FuzzyScan(normalized_phrase, words, start_idx, window_size, si + 1,
                                IF FracGT(adj, best.score)
                                THEN [score |-> adj, si |-> si, ei |-> ei - 1]
                                ELSE best)

BestWindow(normalized_phrase, words, start_idx) ==
    FuzzyScan(normalized_phrase, words, start_idx, 1, start_idx,
              [score |-> Whole(0), si |-> start_idx, ei |-> start_idx])

Remainder(words, start_idx) ==
    Result(words[start_idx + 1].start, words[Len(words)].end, Whole(0), Len(words))

(* the substitution that returns the best window whatever its score *)
_align_fuzzy_NoGate(normalized_phrase, words, start_idx, min_score) ==
    LET best == BestWindow(normalized_phrase, words, start_idx) IN
    Result(words[best.si + 1].start, words[best.ei + 1].end, best.score, best.ei + 1)

_align_fuzzy(normalized_phrase, words, start_idx, min_score) ==
    LET best == BestWindow(normalized_phrase, words, start_idx) IN
    IF FracGE(best.score, Whole(min_score)) /\ best.ei < Len(words)
    THEN Result(words[best.si + 1].start, words[best.ei + 1].end, best.score, best.ei + 1)
    ELSE Remainder(words, start_idx)

(* str.find: the 0-based position of the first occurrence, or -1 *)
RECURSIVE Find(_, _, _)
Find(text, sub, pos) ==
    IF pos + Len(sub) > Len(text) THEN -1
    ELSE IF SubSeq(text, pos + 1, pos + Len(sub)) = sub THEN pos
    ELSE Find(text, sub, pos + 1)

(* lines 423-431 of _align_fallback: r is [start_wi, end_wi], -1 for None *)
RECURSIVE MapChars(_, _, _, _, _, _)
MapChars(search_words, char_start, char_end, i, cp, start_wi) ==
    IF i >= Len(search_words) THEN [start_wi |-> start_wi, end_wi |-> -1]
    ELSE LET wt == normalize_japanese(search_words[i + 1].text)
             ncp == cp + Len(wt)
             sw == IF start_wi = -1 /\ cp <= char_start /\ char_start < ncp
                   THEN i ELSE start_wi
         IN  IF cp <= char_end /\ char_end < ncp
             THEN [start_wi |-> sw, end_wi |-> i]
             ELSE MapChars(search_words, char_start, char_end, i + 1, ncp, sw)

_align_fallback(normalized_phrase, words, start_idx) ==
    LET search_words == SubSeq(words, start_idx + 1, Len(words))
        full_text == JoinNorm(words, start_idx, Len(words))
        pos == Find(full_text, normalized_phrase, 0)
        m == MapChars(search_words, pos, pos + Len(normalized_phrase) - 1, 0, 0, -1)
    IN  IF full_text = << >> THEN Result(0, 0, Whole(0), start_idx)
        ELSE IF pos >= 0 /\ m.start_wi # -1 /\ m.end_wi # -1
        THEN Result(words[start_idx + m.start_wi + 1].start,
                    words[start_idx + m.end_wi + 1].end,
                    Whole(100), start_idx + m.end_wi + 1)
        ELSE Remainder(words, start_idx)

(* the substitution without the test of the normalized phrase *)
align_NoNormTest(gpt_phrase_text, words, search_start_index, fuzzy) ==
    LET norm_phrase == normalize_japanese(gpt_phrase_text) IN
    IF gpt_phrase_text = << >> \/ words = << >>
    THEN Result(0, 0, Whole(0), search_start_index)
    ELSE IF search_start_index >= Len(words)
    THEN Result(words[Len(words)].start, words[Len(words)].end, Whole(0), Len(words))
    ELSE IF fuzzy
    THEN _align_fuzzy(norm_phrase, words, search_start_index, MIN_MATCH_SCORE)
    ELSE _align_fallback(norm_phrase, words, search_start_index)

align_gpt_phrase_to_deepgram_words(gpt_phrase_text, words, search_start_index, fuzzy) ==
    LET norm_phrase == normalize_japanese(gpt_phrase_text) IN
    IF gpt_phrase_text = << >> \/ words = << >>
    THEN Result(0, 0, Whole(0), search_start_index)
    ELSE IF norm_phrase = << >>
    THEN Result(0, 0, Whole(0), search_start_index)
    ELSE IF search_start_index >= Len(words)
    THEN Result(words[Len(words)].start, words[Len(words)].end, Whole(0), Len(words))
    ELSE IF fuzzy
    THEN _align_fuzzy(norm_phrase, words, search_start_index, MIN_MATCH_SCORE)
    ELSE _align_fallback(norm_phrase, words, search_start_index)

----------------------------------------------------------------------------
(* Inputs of the aligner: up to MaxAlignWords words with the texts of       *)
(* WordTexts, 0.1 s each and back to back; phrases of up to MaxPhraseLen    *)
(* letters, and a few with a bracket in them.                               *)

WordTexts == { <<"a">>, <<"b">>, <<"a", "b">>, <<"(">> }

RECURSIVE WordLists(_)
WordLists(n) ==
    IF n = 0 THEN { << >> }
    ELSE WordLists(n - 1)
         \cup { Append(ws, [text |-> t, start |-> WordStart(n), end |-> WordEnd(n)]) :
                    ws \in { x \in WordLists(n - 1) : Len(x) = n - 1 }, t \in WordTexts }

RECURSIVE Letters(_)
Letters(n) ==
    IF n = 0 THEN { << >> }
    ELSE Letters(n - 1)
         \cup { Append(t, c) : t \in { x \in Letters(n - 1) : Len(x) = n - 1 }, c \in {"a", "b"} }

PhraseTexts ==
    Letters(MaxPhraseLen) \cup { <<"(">> \o t : t \in Letters(1) }

NoCall == [made |-> FALSE]

EnvIdle ==
    /\ FUZZY_MATCHING_AVAILABLE = FALSE
    /\ deepgram_words = << >>

CallIdle == call = NoCall

ThreadIdle ==
    /\ last_word_index = 0
    /\ phrases = << >>

AlignInit ==
    /\ FUZZY_MATCHING_AVAILABLE \in BOOLEAN
    /\ deepgram_words \in WordLists(MaxAlignWords)
    /\ call = NoCall

(* One call of align_gpt_phrase_to_deepgram_words with any cursor *)
AlignCall ==
    /\ call = NoCall
    /\ \E text \in PhraseTexts : \E idx \in 0..Len(deepgram_words) :
          call' = [made |-> TRUE, text |-> text, idx |-> idx,
                   r |-> align_gpt_phrase_to_deepgram_words(
                             text, deepgram_words, idx, FUZZY_MATCHING_AVAILABLE)]
    /\ UNCHANGED <<env_vars, seg_vars, thread_vars, vocab_vars>>

ThreadInit ==
    /\ FUZZY_MATCHING_AVAILABLE \in BOOLEAN
    /\ deepgram_words \in WordLists(MaxAlignWords) \ { << >> }
    /\ last_word_index = 0
    /\ phrases = << >>

(* the texts of the phrases of an analysis: those of at most two characters *)
ThreadTexts == { t \in PhraseTexts : Len(t) <= 2 }

(* lines 590-599 of analyze_japanese_segment: one turn of the loop over the *)
(* phrases of the analysis; a phrase keeps its text and gets its timing     *)
AlignNextPhrase ==
    /\ Len(phrases) < MaxPhrases
    /\ \E text \in ThreadTexts :
          LET r == align_gpt_phrase_to_deepgram_words(
                       text, deepgram_words, last_word_index, FUZZY_MATCHING_AVAILABLE)
          IN  /\ phrases' = Append(phrases,
                      [text |-> text,
                       original_start_time |-> r.start, original_end_time |-> r.end,
                       match_score |-> r.score])
              /\ last_word_index' = r.next
    /\ UNCHANGED <<env_vars, seg_vars, call, vocab_vars>>

----------------------------------------------------------------------------
(* Word sync extraction and the vocabulary accumulator.  None stands for    *)
(* Python's None in the start and end of an entry; it is no time the model  *)
(* can compute.                                                             *)

None == -1000000

Max0(a, b) == IF a >= b THEN a ELSE b

(* the substitution without the floors *)
RECURSIVE extract_words_for_sync_NoFloor(_)
extract_words_for_sync_NoFloor(raw_words) ==
    IF raw_words = << >> THEN << >>
    ELSE LET w == Head(raw_words)
         IN  << [text |-> w.text,
                 start |-> SCALE * w.start - TIME_OFFSET,
                 end |-> SCALE * w.end - TIME_OFFSET] >>
             \o extract_words_for_sync_NoFloor(Tail(raw_words))

(* lines 252-269: every word of the transcript, slowed down and shifted *)
RECURSIVE extract_words_for_sync(_)
extract_words_for_sync(raw_words) ==
    IF raw_words = << >> THEN << >>
    ELSE LET w == Head(raw_words)
         IN  << [text |-> w.text,
                 start |-> Max0(0, SCALE * w.start - TIME_OFFSET),
                 end |-> Max0(MIN_END, SCALE * w.end - TIME_OFFSET)] >>
             \o extract_words_for_sync(Tail(raw_words))

(* lines 292-308: the words of the transcript that lie inside the phrase,   *)
(* with times relative to the phrase start, slowed down and shifted         *)
RECURSIVE extract_phrase_words_for_sync(_, _, _)
extract_phrase_words_for_sync(raw_words, phrase_start_orig, phrase_end_orig) ==
    IF raw_words = << >> THEN << >>
    ELSE LET w == Head(raw_words)
             rest == extract_phrase_words_for_sync(Tail(raw_words),
                                                   phrase_start_orig, phrase_end_orig)
         IN  IF w.start >= phrase_start_orig /\ w.end <= phrase_end_orig
             THEN << [text |-> w.text,
                      start |-> Max0(0, SCALE * (w.start - phrase_start_orig) - TIME_OFFSET),
                      end |-> Max0(MIN_END, SCALE * (w.end - phrase_start_orig) - TIME_OFFSET)] >>
                  \o rest
             ELSE rest

(* The lookup is a dict: a sequence of [key, start, end] in insertion       *)
(* order, a repeated key keeping its place and taking the new value.        *)
KeyIndex(lookup, key) ==
    LET hits == { i \in 1..Len(lookup) : lookup[i].key = key } IN
    IF hits = {} THEN 0 ELSE CHOOSE i \in hits : TRUE

LookupPut(lookup, key, s, e) ==
    LET i == KeyIndex(lookup, key) IN
    IF i = 0 THEN Append(lookup, [key |-> key, start |-> s, end |-> e])
    ELSE [lookup EXCEPT ![i] = [key |-> key, start |-> s, end |-> e]]

RECURSIVE JoinText(_, _, _)
(* "".join(t["text"] for t in toks[i:j]) *)
JoinText(toks, i, j) ==
    IF i >= j THEN << >> ELSE toks[i + 1].text \o JoinText(toks, i + 1, j)

(* lines 646-657: the windows of span tokens, for i = 0 .. n - span *)
RECURSIVE SpanLoop(_, _, _, _, _)
SpanLoop(toks, off, span, i, lookup) ==
    IF i > Len(toks) - span THEN lookup
    ELSE LET put == LookupPut(lookup, norm_for_alignment(JoinText(toks, i, i + span)),
                              toks[i + 1].start + off, toks[i + span].end + off)
         IN  \* the test makes TLC evaluate put before the next turn
             IF put = << >> THEN put ELSE SpanLoop(toks, off, span, i + 1, put)

Min2(a, b) == IF a <= b THEN a ELSE b

RECURSIVE NgramLoop(_, _, _, _, _)
NgramLoop(toks, off, span, max_span, lookup) ==
    IF span > Min2(max_span, Len(toks)) THEN lookup
    ELSE LET done == SpanLoop(toks, off, span, 0, lookup)
         IN  IF done = << >> THEN done ELSE NgramLoop(toks, off, span + 1, max_span, done)

(* NgramLoop stopping at pairs of tokens *)
BuildLookup_Pairs(phr, phrase_sync_words) ==
    IF phrase_sync_words = << >> THEN << >>
    ELSE NgramLoop(phrase_sync_words, SCALE * phr.original_start_time - TIME_OFFSET,
                   1, 2, << >>)

(* lines 638-657: single tokens, then the n-grams of 2 .. 8 tokens *)
BuildLookup(phr, phrase_sync_words) ==
    IF phrase_sync_words = << >> THEN << >>
    ELSE NgramLoop(phrase_sync_words, SCALE * phr.original_start_time - TIME_OFFSET,
                   1, MAX_SPAN, << >>)

(* process.extractOne(k, lkeys, scorer=fuzz.ratio): the first key with the  *)
(* highest ratio                                                            *)
RECURSIVE ExtractOne(_, _, _, _)
ExtractOne(k, lookup, i, best) ==
    IF i > Len(lookup) THEN best
    ELSE LET score == fuzz_ratio(k, lookup[i].key) IN
         ExtractOne(k, lookup, i + 1,
                    IF best.hit = 0 \/ FracGT(score, best.score)
                    THEN [hit |-> i, score |-> score] ELSE best)

NoTiming == [start |-> None, end |-> None]

(* Resolve taking the best key whatever its score *)
Resolve_AnyScore(k, lookup, fuzzy) ==
    LET i == KeyIndex(lookup, k) IN
    IF i # 0 THEN [start |-> lookup[i].start, end |-> lookup[i].end]
    ELSE IF fuzzy /\ lookup # << >>
    THEN LET b == ExtractOne(k, lookup, 1, [hit |-> 0, score |-> Whole(0)]) IN
         [start |-> lookup[b.hit].start, end |-> lookup[b.hit].end]
    ELSE NoTiming

(* lines 668-678: the window of one surface form, before the floor *)
Resolve(k, lookup, fuzzy) ==
    LET i == KeyIndex(lookup, k) IN
    IF i # 0 THEN [start |-> lookup[i].start, end |-> lookup[i].end]
    ELSE IF fuzzy /\ lookup # << >>
    THEN LET b == ExtractOne(k, lookup, 1, [hit |-> 0, score |-> Whole(0)]) IN
         IF FracGE(b.score, Whole(MIN_VOCAB_SCORE))
         THEN [start |-> lookup[b.hit].start, end |-> lookup[b.hit].end]
         ELSE NoTiming
    ELSE NoTiming

(* Discard with the floor left out *)
Discard_Keep(t) == t

(* lines 680-682: discard micro-windows *)
Discard(t) ==
    IF t.start # None /\ (t.end - t.start) < MIN_WINDOW THEN NoTiming ELSE t

(* lines 691-695: the readings of the phrase's kanji, a later one of the    *)
(* same kanji replacing an earlier one                                      *)
KanjiReadings(kes) ==
    LET ok == { i \in 1..Len(kes) : kes[i].kanji # << >> /\ kes[i].reading # << >> } IN
    [c \in { kes[i].kanji : i \in ok } |->
        kes[CHOOSE i \in ok : kes[i].kanji = c /\ \A j \in ok : kes[j].kanji = c => j <= i].reading]

Entry(phr, w, t) ==
    [kanji |-> w.kanji, romaji |-> w.romaji, meaning |-> w.meaning,
     kanji_readings |-> KanjiReadings(phr.kanji_explanations),
     start |-> t.start, end |-> t.end]

MapPut(map, surf, e) ==
    [s \in DOMAIN map \cup {surf} |-> IF s = surf THEN e ELSE map[s]]

(* ShouldWrite without the timing clause: only a new surface form is written *)
ShouldWrite_FirstOnly(map, surf, t) ==
    surf \notin DOMAIN map

(* ShouldWrite letting every occurrence with timing overwrite the entry *)
ShouldWrite_LastWins(map, surf, t) ==
    surf \notin DOMAIN map \/ t.start # None

(* lines 684-686: the timing-wins test *)
ShouldWrite(map, surf, t) ==
    surf \notin DOMAIN map \/ (t.start # None /\ map[surf].start = None)

(* WordLoop without the tests of the kanji and of the surface form *)
RECURSIVE WordLoop_NoFilter(_, _, _, _, _, _)
WordLoop_NoFilter(phr, lookup, fuzzy, i, map, fnd) ==
    IF i > Len(phr.words) THEN [map |-> map, found |-> fnd]
    ELSE LET w == phr.words[i]
             surf == w.japanese
             r == Resolve(norm_for_alignment(surf), lookup, fuzzy)
             t == Discard(r)
         IN  WordLoop_NoFilter(phr, lookup, fuzzy, i + 1,
                               IF ShouldWrite(map, surf, t)
                               THEN MapPut(map, surf, Entry(phr, w, t)) ELSE map,
                               Append(fnd, [w |-> w, start |-> r.start, end |-> r.end]))

(* lines 661-698: the words of one phrase; st is [map, found] *)
RECURSIVE WordLoop(_, _, _, _, _, _)
WordLoop(phr, lookup, fuzzy, i, map, fnd) ==
    IF i > Len(phr.words) THEN [map |-> map, found |-> fnd]
    ELSE LET w == phr.words[i] IN
         IF w.kanji = << >> \/ w.japanese = << >>
         THEN WordLoop(phr, lookup, fuzzy, i + 1, map, fnd)
         ELSE LET surf == w.japanese
                  r == Resolve(norm_for_alignment(surf), lookup, fuzzy)
                  t == Discard(r)
                  f == Append(fnd, [w |-> w, start |-> r.start, end |-> r.end])
              IN  WordLoop(phr, lookup, fuzzy, i + 1,
                           IF ShouldWrite(map, surf, t)
                           THEN MapPut(map, surf, Entry(phr, w, t)) ELSE map,
                           f)

RECURSIVE PhraseLoop(_, _, _, _, _, _)
PhraseLoop(phrs, phrase_sync_words, fuzzy, i, map, fnd) ==
    IF i > Len(phrs) THEN [map |-> map, found |-> fnd]
    ELSE LET r == WordLoop(phrs[i], BuildLookup(phrs[i], phrase_sync_words), fuzzy,
                           1, map, fnd)
         IN  PhraseLoop(phrs, phrase_sync_words, fuzzy, i + 1, r.map, r.found)

(* gpt_json is [phrases |-> <<...>>], or NoAnalysis for a missing analysis  *)
(* or one without a phrases list                                            *)
NoAnalysis == [missing |-> TRUE]

collect_vocab_with_kanji(gpt_json, map, phrase_sync_words, fuzzy) ==
    IF gpt_json = NoAnalysis THEN [map |-> map, found |-> << >>]
    ELSE PhraseLoop(gpt_json.phrases, phrase_sync_words, fuzzy, 1, map, << >>)

----------------------------------------------------------------------------
(* Inputs of the vocabulary resolver.  A transcript is a run of tokens back *)
(* to back; its kind gives the texts and the durations (in centiseconds):   *)
(* "mixed" alternates a long "a" and a short "b", "same" repeats "a",       *)
(* "distinct" gives every token its own letter, "bracket" puts a bracket    *)
(* token between the letters.  A phrase covers the tokens between two token *)
(* boundaries.                                                              *)

Letter == <<"c1", "c2", "c3", "c4", "c5", "c6", "c7", "c8", "c9", "c10", "c11", "c12">>

TokText(kind, i) ==
    CASE kind = "mixed" -> IF i % 2 = 1 THEN <<"a">> ELSE <<"b">>
      [] kind = "same" -> <<"a">>
      [] kind = "distinct" -> <<Letter[i]>>
      [] kind = "bracket" -> IF i % 2 = 1 THEN <<"(">> ELSE <<"a">>

TokDur(kind, i) ==
    CASE kind = "mixed" -> IF i % 2 = 1 THEN 30 ELSE 9
      [] OTHER -> 12

RECURSIVE MkTranscript(_, _)
MkTranscript(kind, n) ==
    IF n = 0 THEN << >>
    ELSE LET before == MkTranscript(kind, n - 1)
             s == IF n = 1 THEN 0 ELSE before[n - 1].end
         IN  Append(before, [text |-> TokText(kind, n), start |-> s,
                             end |-> s + TokDur(kind, n)])

Boundaries(ws) == {0} \cup { ws[i].end : i \in 1..Len(ws) }

PhraseSpans(ws) == { x \in Boundaries(ws) \X Boundaries(ws) : x[1] < x[2] }

AnalysisWord(surf, kanji, meaning) ==
    [japanese |-> surf, kanji |-> kanji, romaji |-> <<"r">> \o surf, meaning |-> meaning]

(* The phrases an analysis may hold for the accumulation runs: one word    *)
(* with kanji, of two surface forms and with one of two meanings; a word    *)
(* without kanji or without a surface form; two words with kanji; no word.  *)
(* A phrase whose first word means "m2" explains the reading of its kanji.  *)
VocabSurfaces == { <<"a">>, <<"a", "b">> }

VocabWordLists ==
    { << >>, << AnalysisWord(<<"a">>, << >>, "m1") >>, << AnalysisWord(<< >>, <<"K">>, "m1") >> }
    \cup { << AnalysisWord(sf, <<"K">>, m) >> : sf \in VocabSurfaces, m \in {"m1", "m2"} }
    \cup { << AnalysisWord(<<"a">>, <<"K">>, "m1"), AnalysisWord(sf, <<"K">>, "m2") >> :
              sf \in VocabSurfaces }

Explanations(ws) ==
    IF ws # << >> /\ ws[1].meaning = "m2"
    THEN << [kanji |-> <<"K">>, reading |-> <<"k">>] >>
    ELSE << >>

Phrase(span, words, kes) ==
    [original_start_time |-> span[1], original_end_time |-> span[2],
     words |-> words, kanji_explanations |-> kes]

VocabIdle ==
    /\ transcript = << >>
    /\ vocab_map = << >>
    /\ vocab_call = NoCall
    /\ found = << >>
    /\ n_calls = 0

VocabInit ==
    /\ FUZZY_MATCHING_AVAILABLE \in BOOLEAN
    /\ deepgram_words = << >>
    /\ transcript \in { MkTranscript(kind, VocabToks) : kind \in {"mixed", "same"} }
    /\ vocab_map = << >>
    /\ vocab_call = NoCall
    /\ found = << >>
    /\ n_calls = MaxCalls

(* all_files/jp.py lines 526-532: the sync words of one phrase are          *)
(* extracted and the phrase is collected into the map                       *)
CollectPhrase ==
    /\ n_calls > 0
    /\ \E span \in PhraseSpans(transcript) : \E ws \in VocabWordLists :
          LET p_item == Phrase(span, ws, Explanations(ws))
              p_sync == extract_phrase_words_for_sync(transcript, span[1], span[2])
              r == collect_vocab_with_kanji([phrases |-> << p_item >>], vocab_map,
                                            p_sync, FUZZY_MATCHING_AVAILABLE)
          IN  /\ vocab_call' = [made |-> TRUE, gpt_json |-> [phrases |-> << p_item >>],
                                phrase_sync_words |-> p_sync]
              /\ vocab_map' = r.map
              /\ found' = r.found
    /\ n_calls' = n_calls - 1
    /\ UNCHANGED <<transcript, env_vars, seg_vars, call, thread_vars>>

(* all_files/jp.py lines 108-118: a stored phrase is collected again, with  *)
(* the sync words stored with it, which may be missing                      *)
CollectStored ==
    /\ n_calls > 0
    /\ \E ws \in VocabWordLists :
          LET p_item == Phrase(<<0, 0>>, ws, Explanations(ws))
              p_sync == << >>
              r == collect_vocab_with_kanji([phrases |-> << p_item >>], vocab_map,
                                            p_sync, FUZZY_MATCHING_AVAILABLE)
          IN  /\ vocab_call' = [made |-> TRUE, gpt_json |-> [phrases |-> << p_item >>],
                                phrase_sync_words |-> p_sync]
              /\ vocab_map' = r.map
              /\ found' = r.found
    /\ n_calls' = n_calls - 1
    /\ UNCHANGED <<transcript, env_vars, seg_vars, call, thread_vars>>

(* a call with a missing analysis *)
CollectNothing ==
    /\ n_calls > 0
    /\ LET r == collect_vocab_with_kanji(NoAnalysis, vocab_map, << >>,
                                         FUZZY_MATCHING_AVAILABLE)
       IN  /\ vocab_call' = [made |-> TRUE, gpt_json |-> NoAnalysis,
                             phrase_sync_words |-> << >>]
           /\ vocab_map' = r.map
           /\ found' = r.found
    /\ n_calls' = n_calls - 1
    /\ UNCHANGED <<transcript, env_vars, seg_vars, call, thread_vars>>

(* The surface forms tried against a long transcript: the text of every run *)
(* of its tokens, the same inside brackets, and one that occurs nowhere.    *)
RunTexts(ws) ==
    { JoinText(ws, x[1], x[2]) : x \in { y \in (0..Len(ws)) \X (0..Len(ws)) : y[1] < y[2] } }

ResolveSurfaces(ws) ==
    RunTexts(ws) \cup { <<"(">> \o t \o <<"(">> : t \in { u \in RunTexts(ws) : Len(u) <= 2 } }
                 \cup { <<"z">> }

ResolveInit ==
    /\ FUZZY_MATCHING_AVAILABLE \in BOOLEAN
    /\ deepgram_words = << >>
    /\ transcript \in { MkTranscript(kind, MaxToks) :
                            kind \in {"mixed", "same", "distinct", "bracket"} }
    /\ vocab_map = << >>
    /\ vocab_call = NoCall
    /\ found = << >>
    /\ n_calls = 1

(* one phrase with one kanji word, collected into an empty map *)
ResolvePhrase ==
    /\ n_calls > 0
    /\ \E span \in PhraseSpans(transcript) : \E sf \in ResolveSurfaces(transcript) :
          LET p_item == Phrase(span, << AnalysisWord(sf, <<"K">>, "m1") >>, << >>)
              p_sync == extract_phrase_words_for_sync(transcript, span[1], span[2])
              r == collect_vocab_with_kanji([phrases |-> << p_item >>], vocab_map,
                                            p_sync, FUZZY_MATCHING_AVAILABLE)
          IN  /\ vocab_call' = [made |-> TRUE, gpt_json |-> [phrases |-> << p_item >>],
                                phrase_sync_words |-> p_sync]
              /\ vocab_map' = r.map
              /\ found' = r.found
    /\ n_calls' = n_calls - 1
    /\ UNCHANGED <<transcript, env_vars, seg_vars, call, thread_vars>>

(* all_files/jp.py lines 108-118: a stored phrase with one kanji word is     *)
(* collected without sync words                                             *)
ResolveStored ==
    /\ n_calls > 0
    /\ \E sf \in ResolveSurfaces(transcript) :
          LET p_item == Phrase(<<0, 0>>, << AnalysisWord(sf, <<"K">>, "m1") >>, << >>)
              p_sync == << >>
              r == collect_vocab_with_kanji([phrases |-> << p_item >>], vocab_map,
                                            p_sync, FUZZY_MATCHING_AVAILABLE)
          IN  /\ vocab_call' = [made |-> TRUE, gpt_json |-> [phrases |-> << p_item >>],
                                phrase_sync_words |-> p_sync]
              /\ vocab_map' = r.map
              /\ found' = r.found
    /\ n_calls' = n_calls - 1
    /\ UNCHANGED <<transcript, env_vars, seg_vars, call, thread_vars>>

(* Phrases whose words are a mix: with and without kanji, with and without  *)
(* a surface form.  The phrases start with the recording.                   *)
FilterWords ==
    { AnalysisWord(<<"a">>, << >>, "m1"), AnalysisWord(<< >>, <<"K">>, "m1"),
      AnalysisWord(<<"a">>, <<"K">>, "m1"), AnalysisWord(<<"b">>, <<"K">>, "m2") }

FilterWordLists ==
    { << >> } \cup { <<w>> : w \in FilterWords }
              \cup { <<v, w>> : v \in FilterWords, w \in FilterWords }

CollectWords ==
    /\ n_calls > 0
    /\ \E span \in { x \in PhraseSpans(transcript) : x[1] = 0 } : \E ws \in FilterWordLists :
          LET p_item == Phrase(span, ws, Explanations(ws))
              p_sync == extract_phrase_words_for_sync(transcript, span[1], span[2])
              r == collect_vocab_with_kanji([phrases |-> << p_item >>], vocab_map,
                                            p_sync, FUZZY_MATCHING_AVAILABLE)
          IN  /\ vocab_call' = [made |-> TRUE, gpt_json |-> [phrases |-> << p_item >>],
                                phrase_sync_words |-> p_sync]
              /\ vocab_map' = r.map
              /\ found' = r.found
    /\ n_calls' = n_calls - 1
    /\ UNCHANGED <<transcript, env_vars, seg_vars, call, thread_vars>>

(* A recording as a whole: its phrases in order, each with the words of the *)
(* analysis and the span it was aligned to.  The phrases start with the     *)
(* recording and end after its last or its last but one token; their words  *)
(* are one kanji word "a" with one of two meanings, or "a" and "ab".        *)

LateSpans(ws) ==
    { x \in PhraseSpans(ws) : x[1] = 0 /\ x[2] >= ws[Len(ws) - 1].end }

ReduceWordLists ==
    { << AnalysisWord(<<"a">>, <<"K">>, m) >> : m \in {"m1", "m2"} }
    \cup { << AnalysisWord(<<"a">>, <<"K">>, "m1"), AnalysisWord(<<"a", "b">>, <<"K">>, "m2") >> }

PhraseItems(ws) ==
    { Phrase(span, w, Explanations(w)) : span \in LateSpans(ws), w \in ReduceWordLists }

RECURSIVE Recordings(_, _)
Recordings(ws, n) ==
    IF n = 0 THEN { << >> }
    ELSE Recordings(ws, n - 1)
         \cup { Append(r, p) : r \in { x \in Recordings(ws, n - 1) : Len(x) = n - 1 },
                               p \in PhraseItems(ws) }

(* all_files/jp.py lines 524-532: phrases lo .. hi of the recording are     *)
(* collected one by one into map                                           *)
RECURSIVE Accumulate(_, _, _, _, _, _)
Accumulate(ws, items, lo, hi, map, fuzzy) ==
    IF lo > hi THEN map
    ELSE LET p_sync == extract_phrase_words_for_sync(
                           ws, items[lo].original_start_time, items[lo].original_end_time)
             r == collect_vocab_with_kanji([phrases |-> << items[lo] >>], map, p_sync, fuzzy)
         IN  Accumulate(ws, items, lo + 1, hi, r.map, fuzzy)

(* The reduce step of private maps: an entry of m is inserted if its        *)
(* surface form is new, overwrites an entry without timing if it has        *)
(* timing, and is dropped otherwise.                                        *)
MergeMaps(acc, m) ==
    [s \in DOMAIN acc \cup DOMAIN m |->
        IF s \notin DOMAIN acc THEN m[s]
        ELSE IF s \in DOMAIN m /\ m[s].start # None /\ acc[s].start = None THEN m[s]
        ELSE acc[s]]

RECURSIVE MergeAll(_, _, _)
MergeAll(maps, i, acc) ==
    IF i > Len(maps) THEN acc ELSE MergeAll(maps, i + 1, MergeMaps(acc, maps[i]))

(* the private maps of the blocks: a block ends at a cut or with the        *)
(* recording                                                                *)
RECURSIVE BlockMaps(_, _, _, _, _)
BlockMaps(ws, items, cuts, lo, fuzzy) ==
    IF lo > Len(items) THEN << >>
    ELSE LET ends == { c \in cuts \cup {Len(items)} : c >= lo }
             hi == CHOOSE c \in ends : \A d \in ends : c <= d
         IN  << Accumulate(ws, items, lo, hi, << >>, fuzzy) >>
             \o BlockMaps(ws, items, cuts, hi + 1, fuzzy)

ReduceInit ==
    /\ FUZZY_MATCHING_AVAILABLE \in BOOLEAN
    /\ deepgram_words = << >>
    /\ transcript = MkTranscript("mixed", VocabToks)
    /\ vocab_map = << >>
    /\ vocab_call = NoCall
    /\ found = << >>
    /\ n_calls = 0

(* A recording is accumulated into one map, phrase by phrase, and also      *)
(* block by block into private maps that are then merged in order.          *)
AccumulateRecording ==
    /\ call = NoCall
    /\ \E items \in Recordings(transcript, MaxPhrases) :
       \E cuts \in SUBSET (1..(Len(items) - 1)) :
          LET maps == BlockMaps(transcript, items, cuts, 1, FUZZY_MATCHING_AVAILABLE)
          IN  /\ vocab_map' = Accumulate(transcript, items, 1, Len(items), << >>,
                                         FUZZY_MATCHING_AVAILABLE)
              /\ call' = [made |-> TRUE, items |-> items, cuts |-> cuts,
                          block_maps |-> maps, reduced |-> MergeAll(maps, 1, << >>)]
    /\ UNCHANGED <<transcript, vocab_call, found, n_calls, env_vars, seg_vars, thread_vars>>

(* The phrases of a recording collected in two orders: as they are, and     *)
(* rearranged.                                                              *)

Orders(n) ==
    { p \in [1..n -> 1..n] : \A i \in 1..n : \A j \in 1..n : p[i] = p[j] => i = j }

Permuted(items, p) == [i \in 1..Len(items) |-> items[p[i]]]

(* what the call for one phrase resolves, word by word *)
FoundOf(item) ==
    collect_vocab_with_kanji(
        [phrases |-> << item >>], << >>,
        extract_phrase_words_for_sync(transcript, item.original_start_time,
                                      item.original_end_time),
        FUZZY_MATCHING_AVAILABLE).found

AccumulateOrders ==
    /\ call = NoCall
    /\ \E items \in Recordings(transcript, MaxCalls) :
       \E p \in Orders(Len(items)) :
          LET fnd == [i \in 1..Len(items) |-> FoundOf(items[i])] IN
          /\ vocab_map' = Accumulate(transcript, items, 1, Len(items), << >>,
                                     FUZZY_MATCHING_AVAILABLE)
          /\ call' = [made |-> TRUE,
                      items |-> items, found |-> fnd,
                      order |-> Permuted(items, p), found_order |-> Permuted(fnd, p),
                      reordered |-> Accumulate(transcript, Permuted(items, p), 1, Len(items),
                                               << >>, FUZZY_MATCHING_AVAILABLE)]
    /\ UNCHANGED <<transcript, vocab_call, found, n_calls, env_vars, seg_vars, thread_vars>>

----------------------------------------------------------------------------
(* The specifications: one per component, the others at rest *)

SegNext == PrepareSegments
SegStart == SegInit /\ EnvIdle /\ CallIdle /\ ThreadIdle /\ VocabIdle
SegSpec == SegStart /\ [][SegNext]_vars

PlainStart == PlainInit /\ EnvIdle /\ CallIdle /\ ThreadIdle /\ VocabIdle
PlainSpec == PlainStart /\ [][SegNext]_vars

AlignNext == AlignCall
AlignStart == AlignInit /\ SegIdle /\ ThreadIdle /\ VocabIdle
AlignSpec == AlignStart /\ [][AlignNext]_vars

ThreadNext == AlignNextPhrase
ThreadStart == ThreadInit /\ SegIdle /\ CallIdle /\ VocabIdle
ThreadSpec == ThreadStart /\ [][ThreadNext]_vars

VocabNext == CollectPhrase \/ CollectStored \/ CollectNothing
VocabStart == VocabInit /\ SegIdle /\ CallIdle /\ ThreadIdle
VocabSpec == VocabStart /\ [][VocabNext]_vars

FilterNext == CollectWords \/ CollectNothing
FilterStart == VocabInit /\ SegIdle /\ CallIdle /\ ThreadIdle
FilterSpec == FilterStart /\ [][FilterNext]_vars

OrderNext == AccumulateOrders
OrderStart == ReduceInit /\ SegIdle /\ CallIdle /\ ThreadIdle
OrderSpec == OrderStart /\ [][OrderNext]_vars

ReduceNext == AccumulateRecording
ReduceStart == ReduceInit /\ SegIdle /\ CallIdle /\ ThreadIdle
ReduceSpec == ReduceStart /\ [][ReduceNext]_vars

ResolveNext == ResolvePhrase \/ ResolveStored
ResolveStart == ResolveInit /\ SegIdle /\ CallIdle /\ ThreadIdle
ResolveSpec == ResolveStart /\ [][ResolveNext]_vars

----------------------------------------------------------------------------
(* The normalizer on its own: every text of up to MaxTextLen characters of  *)
(* TextChars is normalized both ways.                                       *)

TextChars == {"a", "(", "_", "U3000", "F7", "7"}

RECURSIVE Texts(_)
Texts(n) ==
    IF n = 0 THEN { << >> }
    ELSE Texts(n - 1)
         \cup { Append(t, c) : t \in { x \in Texts(n - 1) : Len(x) = n - 1 }, c \in TextChars }

NormalizeText ==
    /\ call = NoCall
    /\ \E text \in Texts(MaxTextLen) :
          call' = [made |-> TRUE, text |-> text,
                   normalize_japanese |-> normalize_japanese(text),
                   norm_for_alignment |-> norm_for_alignment(text)]
    /\ UNCHANGED <<env_vars, seg_vars, thread_vars, vocab_vars>>

NormNext == NormalizeText
NormStart == CallIdle /\ EnvIdle /\ SegIdle /\ ThreadIdle /\ VocabIdle
NormSpec == NormStart /\ [][NormNext]_vars

----------------------------------------------------------------------------
(* Word sync extraction on its own: transcripts of up to MaxSyncWords words *)
(* in time order, with times (in centiseconds) on both sides of the floors. *)

SyncTimes == {0, 5, 22, 23, 100}

SyncWord == { [text |-> <<"a">>, start |-> x[1], end |-> x[2]] :
                  x \in { y \in SyncTimes \X SyncTimes : y[1] <= y[2] } }

RECURSIVE SyncTranscripts(_)
SyncTranscripts(n) ==
    IF n = 0 THEN { << >> }
    ELSE SyncTranscripts(n - 1)
         \cup { Append(ws, w) : ws \in { x \in SyncTranscripts(n - 1) : Len(x) = n - 1 },
                                w \in SyncWord }

InTimeOrder(ws) == \A i \in 1..(Len(ws) - 1) : ws[i].end <= ws[i + 1].start

SyncInit ==
    /\ transcript \in { ws \in SyncTranscripts(MaxSyncWords) : InTimeOrder(ws) }
    /\ vocab_map = << >>
    /\ vocab_call = NoCall
    /\ found = << >>
    /\ n_calls = 0

ExtractWords ==
    /\ call = NoCall
    /\ call' = [made |-> TRUE, fn |-> "extract_words_for_sync",
                r |-> extract_words_for_sync(transcript)]
    /\ UNCHANGED <<env_vars, seg_vars, thread_vars, vocab_vars>>

SyncNext == ExtractWords
SyncStart == SyncInit /\ CallIdle /\ EnvIdle /\ SegIdle /\ ThreadIdle
SyncSpec == SyncStart /\ [][SyncNext]_vars

(* Both extractions: the words of the whole transcript, and the words       *)
(* inside a phrase that starts and ends at one of the times of SyncTimes.   *)

ExtractPhraseWords ==
    /\ call = NoCall
    /\ \E s \in SyncTimes : \E e \in SyncTimes :
          call' = [made |-> TRUE, fn |-> "extract_phrase_words_for_sync",
                   phrase_start_orig |-> s, phrase_end_orig |-> e,
                   r |-> extract_phrase_words_for_sync(transcript, s, e)]
    /\ UNCHANGED <<env_vars, seg_vars, thread_vars, vocab_vars>>

PhraseSyncNext == ExtractWords \/ ExtractPhraseWords
PhraseSyncStart == SyncInit /\ CallIdle /\ EnvIdle /\ SegIdle /\ ThreadIdle
PhraseSyncSpec == PhraseSyncStart /\ [][PhraseSyncNext]_vars

----------------------------------------------------------------------------
(* The entry points on input with nothing in it: a transcript without       *)
(* words, a phrase that is empty or normalizes to nothing, an empty word    *)
(* list.                                                                    *)

BlankTexts == { t \in Texts(2) : \A i \in 1..Len(t) : t[i] \in StripChars }

MalformedInit ==
    /\ FUZZY_MATCHING_AVAILABLE \in BOOLEAN
    /\ deepgram_words \in WordLists(MaxAlignWords)
    /\ call = NoCall

AlignMalformed ==
    /\ call = NoCall
    /\ \E text \in PhraseTexts \cup BlankTexts : \E idx \in 0..MaxAlignWords :
          /\ text = << >> \/ normalize_japanese(text) = << >> \/ deepgram_words = << >>
          /\ call' = [made |-> TRUE, fn |-> "align_gpt_phrase_to_deepgram_words",
                      text |-> text, idx |-> idx,
                      r |-> align_gpt_phrase_to_deepgram_words(
                                text, deepgram_words, idx, FUZZY_MATCHING_AVAILABLE)]
    /\ UNCHANGED <<env_vars, seg_vars, thread_vars, vocab_vars>>

PrepareNoWords ==
    /\ call = NoCall
    /\ \E hs \in HintSeqs(MaxHints) :
          call' = [made |-> TRUE, fn |-> "prepare_japanese_segments", utterances |-> hs,
                   r |-> prepare_japanese_segments(hs, << >>)[3]]
    /\ UNCHANGED <<env_vars, seg_vars, thread_vars, vocab_vars>>

ExtractNoWords ==
    /\ call = NoCall
    /\ call' = [made |-> TRUE, fn |-> "extract_words_for_sync",
                r |-> extract_words_for_sync(<< >>)]
    /\ UNCHANGED <<env_vars, seg_vars, thread_vars, vocab_vars>>

ExtractPhraseNoWords ==
    /\ call = NoCall
    /\ \E s \in SyncTimes : \E e \in SyncTimes :
          call' = [made |-> TRUE, fn |-> "extract_phrase_words_for_sync",
                   phrase_start_orig |-> s, phrase_end_orig |-> e,
                   r |-> extract_phrase_words_for_sync(<< >>, s, e)]
    /\ UNCHANGED <<env_vars, seg_vars, thread_vars, vocab_vars>>

MalformedNext ==
    AlignMalformed \/ PrepareNoWords \/ ExtractNoWords \/ ExtractPhraseNoWords
MalformedStart == MalformedInit /\ SegIdle /\ ThreadIdle /\ VocabIdle
MalformedSpec == MalformedStart /\ [][MalformedNext]_vars

----------------------------------------------------------------------------
(* Claims about the segmenter *)

RECURSIVE Flatten(_)
Flatten(groups) ==
    IF groups = << >> THEN << >> ELSE Head(groups) \o Flatten(Tail(groups))

Identity(n) == [i \in 1..n |-> i]

(* C1: word conservation and contiguity: the segments' words, concatenated  *)
(* in order, are exactly the input words 1..n, each once and in order.      *)
C1_WordConservation ==
    seg_pc = "done" => Flatten(segments) = Identity(Len(all_words))

(* C3: hard cap: no returned segment has more than MAX_WORDS words. *)
C3_HardCap ==
    seg_pc = "done" => \A k \in 1..Len(segments) : Len(segments[k]) <= MAX_WORDS

(* C4: no tiny orphans: when two or more segments are returned, each has at *)
(* least MIN_FRAGMENT + 1 words.                                            *)
C4_NoTinyOrphans ==
    (seg_pc = "done" /\ Len(segments) >= 2)
        => \A k \in 1..Len(segments) : Len(segments[k]) >= MIN_FRAGMENT + 1

(* C4 witness: several segments came back although the grouping had produced *)
(* a group of at most MIN_FRAGMENT words and the split pass had cut a group. *)
C4_Witness ==
    /\ seg_pc = "done"
    /\ Len(segments) >= 2
    /\ \E k \in 1..Len(word_groups) : Len(word_groups[k]) <= MIN_FRAGMENT
    /\ Len(segments) > Len(merged)

----------------------------------------------------------------------------
(* Claims about the phrase aligner *)

Given(phr) == phr.original_end_time > 0

(* C2: sequential non-overlap: the ranges written to the phrases of one     *)
(* segment are non-decreasing in start and pairwise non-overlapping.  It is *)
(* stated for the phrases that were given words (an empty phrase gets the   *)
(* range (0, 0)), the reading most favourable to the claim.                 *)
C2_SequentialNonOverlap ==
    \A i \in 1..Len(phrases) : \A j \in (i + 1)..Len(phrases) :
        (Given(phrases[i]) /\ Given(phrases[j]))
            => /\ phrases[i].original_start_time <= phrases[j].original_start_time
               /\ phrases[i].original_end_time <= phrases[j].original_start_time

Applicable ==
    /\ call # NoCall
    /\ deepgram_words # << >>
    /\ call.idx < Len(deepgram_words)
    /\ normalize_japanese(call.text) # << >>

Windows(start_idx, n) ==
    { x \in (start_idx..n) \X (start_idx..n) : x[1] < x[2] }

(* no window of the eligible words is accepted: its adjusted score is below *)
(* the threshold (fuzzy path), or the phrase is no substring (no scorer)    *)
NoWindowAccepted ==
    LET np == normalize_japanese(call.text)
        n == Len(deepgram_words)
    IN  IF FUZZY_MATCHING_AVAILABLE
        THEN \A x \in Windows(call.idx, n) :
                LET text == JoinNorm(deepgram_words, x[1], x[2]) IN
                text # << >> =>
                    ~FracGE(adj_score(fuzz_ratio(np, text), text), Whole(MIN_MATCH_SCORE))
        ELSE LET full_text == JoinNorm(deepgram_words, call.idx, n) IN
             \A pos \in 0..(Len(full_text) - Len(np)) :
                SubSeq(full_text, pos + 1, pos + Len(np)) # np

(* C5: graceful degradation: a phrase that normalizes to something and for  *)
(* which no window is accepted gets the whole remainder of the words, with  *)
(* score 0 and the cursor at the end.                                       *)
C5_GracefulDegradation ==
    (Applicable /\ NoWindowAccepted)
        => call.r = Result(deepgram_words[call.idx + 1].start,
                           deepgram_words[Len(deepgram_words)].end,
                           Whole(0), Len(deepgram_words))

(* C6: the score the aligner returns lies in 0..100. *)
C6_ScoreRange ==
    call # NoCall
        => FracGE(call.r.score, Whole(0)) /\ FracGE(Whole(100), call.r.score)

(* the raw similarity of the window the result spans: the words from the    *)
(* one that starts at the result's start up to the cursor it returns        *)
ReturnedRaw ==
    LET si == CHOOSE i \in 0..(Len(deepgram_words) - 1) :
                  deepgram_words[i + 1].start = call.r.start
    IN  fuzz_ratio(normalize_japanese(call.text),
                   JoinNorm(deepgram_words, si, call.r.next))

(* C7: on the fuzzy path a match is returned only for a window whose raw    *)
(* similarity is at least the threshold; otherwise the degraded result.     *)
C7_RawScoreGate ==
    (Applicable /\ FUZZY_MATCHING_AVAILABLE)
        => \/ call.r = Remainder(deepgram_words, call.idx)
           \/ FracGE(ReturnedRaw, Whole(MIN_MATCH_SCORE))

----------------------------------------------------------------------------
(* Claims about the vocabulary accumulator *)

Kept(o) == Discard([start |-> o.start, end |-> o.end])

Occurrences(fnd, surf) == { i \in 1..Len(fnd) : fnd[i].w.japanese = surf }

FirstOf(S) == CHOOSE i \in S : \A j \in S : i <= j

(* the entry the timing-wins rule leaves for surf after the occurrences of  *)
(* one call: the entry there was if it has timing; else the first           *)
(* occurrence with timing; else the entry there was; else the first         *)
(* occurrence                                                               *)
TimingWins(old, surf, phr, fnd) ==
    LET occ == Occurrences(fnd, surf)
        timed == { i \in occ : Kept(fnd[i]).start # None }
        entry(i) == [kanji |-> fnd[i].w.kanji, romaji |-> fnd[i].w.romaji,
                     meaning |-> fnd[i].w.meaning,
                     kanji_readings |-> KanjiReadings(phr.kanji_explanations),
                     start |-> Kept(fnd[i]).start, end |-> Kept(fnd[i]).end]
    IN  IF surf \in DOMAIN old /\ old[surf].start # None THEN old[surf]
        ELSE IF timed # {} THEN entry(FirstOf(timed))
        ELSE IF surf \in DOMAIN old THEN old[surf]
        ELSE entry(FirstOf(occ))

C8_Step ==
    /\ DOMAIN vocab_map \subseteq DOMAIN vocab_map'
    /\ \A s \in DOMAIN vocab_map' \ DOMAIN vocab_map : Occurrences(found', s) # {}
    /\ \A s \in DOMAIN vocab_map :
          vocab_map[s].start # None => vocab_map'[s] = vocab_map[s]
    /\ vocab_call'.gpt_json # NoAnalysis =>
          \A s \in DOMAIN vocab_map' :
              vocab_map'[s] = TimingWins(vocab_map, s, vocab_call'.gpt_json.phrases[1], found')

(* C8: the timing-wins rule: a new surface form is inserted with the timing *)
(* found or none; an entry without timing is replaced by the first later    *)
(* occurrence with timing; an entry with timing never changes; no entry is  *)
(* removed.                                                                 *)
C8_TimingWins == [][C8_Step]_vars

(* C8 witness: the last call had an occurrence with timing of a surface    *)
(* form whose entry, which has timing, is still that of an earlier          *)
(* occurrence                                                               *)
C8_Witness ==
    \E i \in 1..Len(found) :
        /\ Kept(found[i]).start # None
        /\ vocab_map[found[i].w.japanese].start # None
        /\ vocab_map[found[i].w.japanese].start # Kept(found[i]).start
        /\ vocab_map[found[i].w.japanese].meaning # found[i].w.meaning

(* C9: the 150 ms floor: every entry of the map has no timing at all or a   *)
(* window at least MIN_WINDOW wide.                                         *)
C9_Floor ==
    \A s \in DOMAIN vocab_map :
        LET e == vocab_map[s] IN
        \/ e.start = None /\ e.end = None
        \/ e.start # None /\ e.end # None /\ e.end - e.start >= MIN_WINDOW

(* C9 witness: a window narrower than the floor was resolved and the entry  *)
(* of its surface form has no timing                                        *)
C9_Witness ==
    \E i \in 1..Len(found) :
        /\ found[i].start # None
        /\ found[i].end - found[i].start < MIN_WINDOW
        /\ vocab_map[found[i].w.japanese].start = None

(* the runs of 1 .. MAX_SPAN tokens whose key is k, as <<first, past-last>> *)
MatchingRuns(toks, k) ==
    { x \in (0..Len(toks)) \X (0..Len(toks)) :
        /\ x[1] < x[2]
        /\ x[2] - x[1] <= MAX_SPAN
        /\ norm_for_alignment(JoinText(toks, x[1], x[2])) = k }

RunWindow(toks, phr, x) ==
    [start |-> toks[x[1] + 1].start + SCALE * phr.original_start_time - TIME_OFFSET,
     end |-> toks[x[2]].end + SCALE * phr.original_start_time - TIME_OFFSET]

(* the run the lookup was written for last: the longest, and among those of *)
(* that length the rightmost                                                *)
LastRun(runs) ==
    CHOOSE x \in runs : \A y \in runs :
        \/ y[2] - y[1] < x[2] - x[1]
        \/ (y[2] - y[1] = x[2] - x[1] /\ y[1] <= x[1])

ResolvedWindow == [start |-> found[1].start, end |-> found[1].end]

(* C10 as stated: the surface form gets the window of every run of 1 to 8   *)
(* tokens whose key equals its own.                                         *)
C10_EveryRun ==
    found # << >> =>
        LET toks == vocab_call.phrase_sync_words
            phr == vocab_call.gpt_json.phrases[1]
        IN  \A x \in MatchingRuns(toks, norm_for_alignment(found[1].w.japanese)) :
                ResolvedWindow = RunWindow(toks, phr, x)

(* C10 amended: the surface form gets the window of the last-written run of *)
(* 1 to 8 tokens whose key equals its own; without such a run there is no   *)
(* exact match, and so no window at all when no scorer is available, even   *)
(* if a run of 9 or more tokens has the key.                                *)
C10_LastRun ==
    found # << >> =>
        LET toks == vocab_call.phrase_sync_words
            phr == vocab_call.gpt_json.phrases[1]
            runs == MatchingRuns(toks, norm_for_alignment(found[1].w.japanese))
        IN  /\ runs # {} => ResolvedWindow = RunWindow(toks, phr, LastRun(runs))
            /\ (runs = {} /\ ~FUZZY_MATCHING_AVAILABLE) => ResolvedWindow = NoTiming

(* C10 witness: the surface form is the text of one run only, of MAX_SPAN   *)
(* tokens, and got its window                                               *)
C10_Witness ==
    /\ found # << >>
    /\ LET toks == vocab_call.phrase_sync_words
           runs == MatchingRuns(toks, norm_for_alignment(found[1].w.japanese))
       IN  /\ Cardinality(runs) = 1
           /\ \A x \in runs : x[2] - x[1] = MAX_SPAN
           /\ ResolvedWindow # NoTiming

----------------------------------------------------------------------------
(* Claims about the normalizer *)

Chars(text) == { text[i] : i \in 1..Len(text) }

(* C11: both normalizations are idempotent, and their results hold no       *)
(* bracket, no whitespace, no ideographic space and (norm_for_alignment) no *)
(* full-width digit.                                                        *)
C11_IdempotentNormalization ==
    call # NoCall =>
        /\ normalize_japanese(call.normalize_japanese) = call.normalize_japanese
        /\ norm_for_alignment(call.norm_for_alignment) = call.norm_for_alignment
        /\ Chars(call.normalize_japanese) \cap {"(", "_", "U3000"} = {}
        /\ Chars(call.norm_for_alignment) \cap {"(", "_", "U3000", "F7"} = {}

(* C11 witness: a text with a bracket, a space and a full-width digit       *)
(* inside it was normalized                                                 *)
C11_Witness ==
    /\ call # NoCall
    /\ {"(", "_", "F7", "a"} \subseteq Chars(call.text)
    /\ call.text[1] = "a"
    /\ call.norm_for_alignment = <<"a", "7">>

----------------------------------------------------------------------------
(* Claims about word sync extraction.  Input times are centiseconds and     *)
(* output times thirds of a centisecond: t / 0.75 - 0.3 s is 4 t - 90.      *)

Remapped ==
    /\ Len(call.r) = Len(transcript)
    /\ \A i \in 1..Len(transcript) :
          /\ call.r[i].text = transcript[i].text
          /\ call.r[i].start =
                 (IF 4 * transcript[i].start - 90 > 0 THEN 4 * transcript[i].start - 90 ELSE 0)
          /\ call.r[i].end =
                 (IF 4 * transcript[i].end - 90 > 3 THEN 4 * transcript[i].end - 90 ELSE 3)

(* C12 as stated: the remap formula, and 1.0 s mapped to 0.7333 s (220) *)
C12_RemapAsStated ==
    call # NoCall =>
        /\ Remapped
        /\ \A i \in 1..Len(transcript) : transcript[i].start = 100 => call.r[i].start = 220

(* C12 amended: every word is remapped by max(0, t / 0.75 - 0.3) and        *)
(* max(0.01, t / 0.75 - 0.3), one output word per input word and in order;  *)
(* 1.0 s maps to 1.0333 s (310).                                            *)
C12_Remap ==
    call # NoCall =>
        /\ Remapped
        /\ \A i \in 1..Len(transcript) : transcript[i].start = 100 => call.r[i].start = 310

(* C12 witness: a transcript with a word floored at both ends and a word    *)
(* starting at 1.0 s was extracted                                          *)
C12_Witness ==
    /\ call # NoCall
    /\ \E i \in 1..Len(transcript) : transcript[i].end = 22 /\ call.r[i].end = 3
    /\ \E i \in 1..Len(transcript) : transcript[i].start = 100 /\ call.r[i].start = 310

----------------------------------------------------------------------------
(* Claims about input with nothing in it *)

(* C13: without words the segmenter returns no segment and both extractions *)
(* an empty list; for an empty phrase, a phrase that normalizes to nothing  *)
(* or an empty word list the aligner returns (0, 0, 0, search_start_index). *)
C13_MalformedInput ==
    call # NoCall =>
        IF call.fn = "align_gpt_phrase_to_deepgram_words"
        THEN call.r = [start |-> 0, end |-> 0, score |-> <<0, 1>>, next |-> call.idx]
        ELSE call.r = << >>

(* C13 witness: the aligner was called past the first word with a phrase of *)
(* brackets only against words with text                                    *)
C13_Witness ==
    /\ call # NoCall
    /\ call.fn = "align_gpt_phrase_to_deepgram_words"
    /\ call.text # << >>
    /\ call.idx > 0
    /\ call.idx < Len(deepgram_words)
    /\ \A i \in 1..Len(deepgram_words) : deepgram_words[i].text = <<"a">>

----------------------------------------------------------------------------
(* Claims about the aligner without a scorer *)

FullText == JoinNorm(deepgram_words, call.idx, Len(deepgram_words))

Occurrences14 ==
    LET np == normalize_japanese(call.text) IN
    { pos \in 0..(Len(FullText) - Len(np)) : SubSeq(FullText, pos + 1, pos + Len(np)) = np }

(* the eligible word, counted from the cursor, that holds character c of    *)
(* the eligible words' normalized text                                      *)
WordOfChar(c) ==
    CHOOSE w \in 0..(Len(deepgram_words) - call.idx - 1) :
        /\ Len(JoinNorm(deepgram_words, call.idx, call.idx + w)) <= c
        /\ c < Len(JoinNorm(deepgram_words, call.idx, call.idx + w + 1))

(* C14: without a scorer, a phrase that occurs in the eligible words' text  *)
(* gets the words from the one holding the first character of the leftmost  *)
(* occurrence to the one holding its last character, score 100 and the      *)
(* cursor past that word; a phrase that does not occur gets the whole       *)
(* remainder with score 0.                                                  *)
C14_FallbackPath ==
    (Applicable /\ ~FUZZY_MATCHING_AVAILABLE) =>
        IF Occurrences14 # {}
        THEN LET pos == CHOOSE x \in Occurrences14 : \A y \in Occurrences14 : x <= y
                 first == call.idx + WordOfChar(pos)
                 last == call.idx + WordOfChar(pos + Len(normalize_japanese(call.text)) - 1)
             IN  call.r = [start |-> deepgram_words[first + 1].start,
                           end |-> deepgram_words[last + 1].end,
                           score |-> <<100, 1>>, next |-> last + 1]
        ELSE call.r = [start |-> deepgram_words[call.idx + 1].start,
                       end |-> deepgram_words[Len(deepgram_words)].end,
                       score |-> <<0, 1>>, next |-> Len(deepgram_words)]

----------------------------------------------------------------------------
(* Claims about the fuzzy aligner *)

(* the runs of eligible words, as <<first, last>>, whose normalized text is *)
(* the normalized phrase                                                    *)
ExactRuns ==
    { x \in (call.idx..(Len(deepgram_words) - 1)) \X (call.idx..(Len(deepgram_words) - 1)) :
        /\ x[1] <= x[2]
        /\ JoinNorm(deepgram_words, x[1], x[2] + 1) = normalize_japanese(call.text) }

SpanOf(x) ==
    [start |-> deepgram_words[x[1] + 1].start, end |-> deepgram_words[x[2] + 1].end,
     next |-> x[2] + 1]

ReturnedSpan == [start |-> call.r.start, end |-> call.r.end, next |-> call.r.next]

AllWordsHaveText ==
    \A i \in 1..Len(deepgram_words) : normalize_japanese(deepgram_words[i].text) # << >>

(* C15 as stated: the fuzzy aligner returns the leftmost exact run, with a  *)
(* score of at least 90.  It is stated for words that all have text after   *)
(* normalization, so that a run has one first word only.                    *)
C15_LeftmostRun ==
    (Applicable /\ FUZZY_MATCHING_AVAILABLE /\ AllWordsHaveText /\ ExactRuns # {}) =>
        /\ FracGE(call.r.score, Whole(90))
        /\ \E x \in ExactRuns :
              /\ \A y \in ExactRuns : x[1] <= y[1]
              /\ ReturnedSpan = SpanOf(x)

(* C15 amended: the fuzzy aligner returns an exact run with a score of at   *)
(* least 90: the one of fewest words, and among those the leftmost.         *)
C15_ExactRun ==
    (Applicable /\ FUZZY_MATCHING_AVAILABLE /\ ExactRuns # {}) =>
        /\ FracGE(call.r.score, Whole(90))
        /\ \E x \in ExactRuns :
              /\ \A y \in ExactRuns :
                    \/ x[2] - x[1] < y[2] - y[1]
                    \/ (x[2] - x[1] = y[2] - y[1] /\ x[1] <= y[1])
              /\ ReturnedSpan = SpanOf(x)

(* C15 witness: the phrase is the text of the last two of three words, and  *)
(* of no other run, and got their span                                      *)
C15_Witness ==
    /\ Applicable
    /\ FUZZY_MATCHING_AVAILABLE
    /\ call.idx = 0
    /\ ExactRuns = { <<1, 2>> }
    /\ ReturnedSpan = SpanOf(<<1, 2>>)

----------------------------------------------------------------------------
(* Claims about the passes of the segmenter.  A group is the sequence of    *)
(* the positions of its words in the input, so the last element of a        *)
(* segment is the number of words up to the cut after it.                   *)

Lengths(groups) == [k \in 1..Len(groups) |-> Len(groups[k])]

PunctuationFree == \A i \in 1..Len(all_words) : all_words[i].p = NoPunct

CutsAtTwenties ==
    /\ \A k \in 1..(Len(segments) - 1) : segments[k][Len(segments[k])] % 20 = 0
    /\ Len(all_words) = 25 => Lengths(segments) = <<20, 5>>

(* C16 as stated: for words without punctuation every cut falls after a    *)
(* multiple of 20 words, and 25 words give two segments of 20 and 5 words.  *)
C16_AnyHints ==
    (seg_pc = "done" /\ PunctuationFree) => CutsAtTwenties

(* C16 amended: the same for words without punctuation when no utterance    *)
(* hints are given.                                                         *)
C16_PunctuationFree ==
    (seg_pc = "done" /\ PunctuationFree /\ utterances = << >>) => CutsAtTwenties

(* C16 witness: 25 words without punctuation were segmented *)
C16_Witness ==
    /\ seg_pc = "done"
    /\ utterances = << >>
    /\ Len(all_words) = 25
    /\ PunctuationFree
    /\ Len(segments) = 2

----------------------------------------------------------------------------
(* Claims about the cursor of the aligner *)

(* C17: eligibility: for a phrase that normalizes to something and a        *)
(* non-empty word list, the returned start is the start of a word at or     *)
(* after the cursor and the returned end the end of that word or a later    *)
(* one, the cursor at the end of the list included.                         *)
C17_Eligibility ==
    (call # NoCall /\ deepgram_words # << >> /\ normalize_japanese(call.text) # << >>) =>
        \E i \in call.idx..(Len(deepgram_words) - 1) :
            \E j \in i..(Len(deepgram_words) - 1) :
                /\ call.r.start = deepgram_words[i + 1].start
                /\ call.r.end = deepgram_words[j + 1].end

(* the merge pass as C18 describes it: a group of at most 3 words, carried  *)
(* words included, goes forward into the next group unless it is the last,  *)
(* and then it is appended to the group emitted before it                   *)
RECURSIVE MergeForward(_, _, _, _)
MergeForward(groups, k, mrg, carry) ==
    IF k > Len(groups) THEN mrg
    ELSE LET combined == carry \o groups[k] IN
         IF Len(combined) <= 3 /\ k < Len(groups)
         THEN MergeForward(groups, k + 1, mrg, combined)
         ELSE IF Len(combined) <= 3 /\ mrg # << >>
         THEN MergeForward(groups, k + 1, [mrg EXCEPT ![Len(mrg)] = @ \o combined], << >>)
         ELSE MergeForward(groups, k + 1, Append(mrg, combined), << >>)

(* C18: merge pass direction: the merged groups are those of the forward    *)
(* merge: a tiny group that is not the last is prepended to the next group, *)
(* and only the last one is appended to the group before it.                *)
C18_MergeDirection ==
    seg_pc = "done" => merged = MergeForward(word_groups, 1, << >>, << >>)

(* a run of n words of a group whose last word is where the split pass      *)
(* cuts: it carries punctuation and is at least the 8th, or it is the 20th  *)
CutAfter(sub, n) ==
    \/ all_words[sub[n]].p # NoPunct /\ n >= 8
    \/ n = 20

(* the sub-group was closed by the first cut after its first word *)
ClosedByCut(sub, n) ==
    /\ CutAfter(sub, n)
    /\ \A l \in 1..(n - 1) : ~CutAfter(sub, l)

(* the last sub-group: closed by a cut, or closed by a cut and then given   *)
(* the 1 to 3 words left over, or what was left over, more than 3 words     *)
LastSubGroup(sub) ==
    \/ ClosedByCut(sub, Len(sub))
    \/ \E t \in 1..3 : t < Len(sub) /\ ClosedByCut(sub, Len(sub) - t)
    \/ Len(sub) > 3 /\ \A l \in 1..Len(sub) : ~CutAfter(sub, l)

InGroup(grp, sub) == \E i \in 1..Len(grp) : grp[i] = sub[1]

SubGroups(grp) ==
    LET in(sub) == InGroup(grp, sub) IN SelectSeq(segments, in)

(* C19: split pass rule: a merged group of more than 20 words comes back as *)
(* sub-groups each closed by a cut after punctuation with at least 8 words  *)
(* or after exactly 20 words, never earlier, a remainder of at most 3 words *)
(* being appended to the sub-group before it.                               *)
C19_SplitRule ==
    seg_pc = "done" =>
        \A m \in 1..Len(merged) :
            Len(merged[m]) > 20 =>
                LET subs == SubGroups(merged[m]) IN
                /\ Flatten(subs) = merged[m]
                /\ Len(subs) >= 1
                /\ \A k \in 1..Len(subs) :
                      IF k < Len(subs) THEN ClosedByCut(subs[k], Len(subs[k]))
                      ELSE LastSubGroup(subs[k])

(* C19 witness: 23 words were cut after punctuation on the 8th word and     *)
(* again on the 20th, and the 3 words left over went to the second          *)
(* sub-group                                                                *)
C19_Witness ==
    /\ seg_pc = "done"
    /\ Len(merged) = 1
    /\ Len(merged[1]) = 23
    /\ all_words[20].p # NoPunct
    /\ Lengths(segments) = <<8, 15>>

(* C20: cursor monotonicity and progress: the cursor a call returns is at   *)
(* least the one it was given and at most the number of words, and it is    *)
(* greater when the phrase normalizes to something and a word is eligible.  *)
C20_CursorProgress ==
    call # NoCall =>
        /\ call.idx <= call.r.next
        /\ call.r.next <= Len(deepgram_words)
        /\ (normalize_japanese(call.text) # << >> /\ call.idx < Len(deepgram_words))
              => call.r.next > call.idx

----------------------------------------------------------------------------
(* Claims about the phrases of one segment.  The cursor after phrase k is   *)
(* the one analyze_japanese_segment threads: the end_word_index of the call *)
(* for phrase k, made with the cursor after phrase k - 1.                   *)

RECURSIVE CursorAfter(_)
CursorAfter(k) ==
    IF k = 0 THEN 0
    ELSE align_gpt_phrase_to_deepgram_words(
             phrases[k].text, deepgram_words, CursorAfter(k - 1),
             FUZZY_MATCHING_AVAILABLE).next

Degraded(k) ==
    /\ phrases[k].match_score = Whole(0)
    /\ CursorAfter(k) = Len(deepgram_words)

(* the span of the words from the cursor on; when no word is left, any span *)
(* that covers no word                                                      *)
IsFullRemainder(phr, cursor) ==
    IF cursor < Len(deepgram_words)
    THEN /\ phr.original_start_time = deepgram_words[cursor + 1].start
         /\ phr.original_end_time = deepgram_words[Len(deepgram_words)].end
    ELSE \A i \in 1..Len(deepgram_words) :
            ~(/\ phr.original_start_time <= deepgram_words[i].start
              /\ deepgram_words[i].end <= phr.original_end_time)

(* C21: degradation cascade: after a phrase with the degraded result (score *)
(* 0, cursor at the end of the words), every later non-empty phrase has     *)
(* score 0, leaves the cursor at the end of the words, and spans the whole  *)
(* remainder of the words from the cursor it was given.                     *)
C21_Cascade ==
    \A i \in 1..Len(phrases) : \A j \in (i + 1)..Len(phrases) :
        (Degraded(i) /\ phrases[j].text # << >>) =>
            /\ phrases[j].match_score = Whole(0)
            /\ CursorAfter(j) = Len(deepgram_words)
            /\ IsFullRemainder(phrases[j], CursorAfter(j - 1))

(* the part of C21 about the score and the cursor alone *)
C21_ScoreAndCursor ==
    \A i \in 1..Len(phrases) : \A j \in (i + 1)..Len(phrases) :
        (Degraded(i) /\ phrases[j].text # << >>) =>
            /\ phrases[j].match_score = Whole(0)
            /\ CursorAfter(j) = Len(deepgram_words)
            /\ last_word_index = Len(deepgram_words)

----------------------------------------------------------------------------
(* Claims about the score of the aligner *)

Exhausted ==
    Result(deepgram_words[Len(deepgram_words)].start,
           deepgram_words[Len(deepgram_words)].end, Whole(0), Len(deepgram_words))

(* the degraded results: nothing to align, the cursor past the last word,   *)
(* or the whole remainder                                                   *)
IsDegraded ==
    \/ call.r = Result(0, 0, Whole(0), call.idx)
    \/ deepgram_words # << >> /\ call.idx >= Len(deepgram_words) /\ call.r = Exhausted
    \/ deepgram_words # << >> /\ call.idx < Len(deepgram_words)
           /\ call.r = Remainder(deepgram_words, call.idx)

(* a window of the eligible words is chosen by matching *)
Matched == Applicable /\ ~NoWindowAccepted

(* C22: the score tells a degraded result from a match: it is 0 or at least *)
(* the threshold; it is 0 exactly for the degraded results, and a result    *)
(* with a window chosen by matching has a score of at least the threshold   *)
(* with the scorer and of 100 without it.                                   *)
C22_ScoreTagsDegradation ==
    call # NoCall =>
        /\ call.r.score = Whole(0) \/ FracGE(call.r.score, Whole(MIN_MATCH_SCORE))
        /\ call.r.score = Whole(0) <=> IsDegraded
        /\ call.r.score = Whole(0) <=> ~Matched
        /\ Matched => IF FUZZY_MATCHING_AVAILABLE
                      THEN FracGE(call.r.score, Whole(MIN_MATCH_SCORE))
                      ELSE call.r.score = Whole(100)

(* C22 witness: with the scorer, a call past the first word chose a window  *)
(* that is not the phrase exactly, with a score between the threshold and   *)
(* 100                                                                      *)
C22_Witness ==
    /\ Matched
    /\ FUZZY_MATCHING_AVAILABLE
    /\ call.idx > 0
    /\ ExactRuns = {}
    /\ FracGE(call.r.score, Whole(MIN_MATCH_SCORE))
    /\ FracGT(Whole(100), call.r.score)

----------------------------------------------------------------------------
(* Claims about the times of the vocabulary.  The words of a phrase are the *)
(* words of the transcript inside it, with their times in the original      *)
(* recording (centiseconds); token i of phrase_sync_words comes from word i *)
(* of them.                                                                 *)

WordsInside(ws, phr) ==
    LET in(w) == w.start >= phr.original_start_time /\ w.end <= phr.original_end_time
    IN  SelectSeq(ws, in)

(* the display window of the run x of the phrase's words: what              *)
(* extract_words_for_sync gives its first word as start and its last word   *)
(* as end                                                                   *)
DisplayWindow(ws, x) ==
    LET d == extract_words_for_sync(ws) IN [start |-> d[x[1] + 1].start, end |-> d[x[2]].end]

StoredWindow(surf) == [start |-> vocab_map[surf].start, end |-> vocab_map[surf].end]

(* C23: vocabulary times are display times of the whole slowed recording:   *)
(* an entry resolved from a run of the phrase's words has the start         *)
(* max(0, s / 0.75 - 0.3) and the end max(0.01, e / 0.75 - 0.3) for the     *)
(* original start s of the run's first word and the original end e of its   *)
(* last word, and its start is never negative.                              *)
C23_DisplayDomain ==
    found # << >> =>
        LET surf == found[1].w.japanese
            phr == vocab_call.gpt_json.phrases[1]
            runs == MatchingRuns(vocab_call.phrase_sync_words, norm_for_alignment(surf))
        IN  (runs # {} /\ vocab_map[surf].start # None) =>
                /\ \E x \in runs :
                       StoredWindow(surf) = DisplayWindow(WordsInside(transcript, phr), x)
                /\ vocab_map[surf].start >= 0

(* the start of an entry with timing is never negative *)
C23_NoNegativeStart ==
    \A surf \in DOMAIN vocab_map : vocab_map[surf].start # None => vocab_map[surf].start >= 0

----------------------------------------------------------------------------
(* Claims about the windows of the sync words *)

(* C24: no highlight window of zero or negative length: every word emitted  *)
(* by extract_words_for_sync and by extract_phrase_words_for_sync, for      *)
(* input words with 0 <= start <= end, has start >= 0, end >= 0.01 and      *)
(* end > start.                                                             *)
C24_PositiveWindows ==
    call # NoCall =>
        \A i \in 1..Len(call.r) :
            /\ call.r[i].start >= 0
            /\ call.r[i].end >= MIN_END
            /\ call.r[i].end > call.r[i].start

(* the floors alone: start >= 0, end >= 0.01 and end >= start *)
C24_Floors ==
    call # NoCall =>
        \A i \in 1..Len(call.r) :
            /\ call.r[i].start >= 0
            /\ call.r[i].end >= MIN_END
            /\ call.r[i].end >= call.r[i].start

----------------------------------------------------------------------------
(* Claims about what reaches the vocabulary map *)

(* the surface forms of the words of the last call's phrase that have kanji *)
(* and a surface form                                                       *)
KanjiSurfaces(c) ==
    IF c.gpt_json = NoAnalysis THEN {}
    ELSE LET ws == c.gpt_json.phrases[1].words IN
         { ws[i].japanese :
             i \in { j \in 1..Len(ws) : ws[j].kanji # << >> /\ ws[j].japanese # << >> } }

C25_Step ==
    LET ks == KanjiSurfaces(vocab_call') IN
    /\ DOMAIN vocab_map' = DOMAIN vocab_map \cup ks
    /\ \A s \in DOMAIN vocab_map \ ks : vocab_map'[s] = vocab_map[s]
    /\ ks = {} => vocab_map' = vocab_map
    /\ \A s \in ks : \E i \in 1..Len(found') :
          found'[i].w.japanese = s /\ found'[i].w.kanji # << >>

KeysHaveKanji ==
    \A s \in DOMAIN vocab_map : s # << >> /\ vocab_map[s].kanji # << >>

(* C25: only surface forms with kanji reach the map: a call changes the map *)
(* at the surface forms of its words that have kanji and a surface form and *)
(* nowhere else, so a word without kanji or without a surface form and a    *)
(* call without an analysis leave it as it was; every key is the surface    *)
(* form of a processed word with kanji.                                     *)
C25_OnlyKanji == [](KeysHaveKanji) /\ [][C25_Step]_vars

(* C25 witness: the last call's phrase had a word without kanji and a word  *)
(* with kanji; the map holds the surface form of the second and not that of *)
(* the first                                                                *)
C25_Witness ==
    /\ vocab_call # NoCall
    /\ vocab_call.gpt_json # NoAnalysis
    /\ LET ws == vocab_call.gpt_json.phrases[1].words IN
       /\ Len(ws) = 2
       /\ ws[1].kanji = << >> /\ ws[1].japanese \notin DOMAIN vocab_map
       /\ ws[2].kanji # << >> /\ ws[2].japanese \in DOMAIN vocab_map

----------------------------------------------------------------------------
(* Claims about the match of a surface form against the lookup *)

LookupOfCall ==
    BuildLookup(vocab_call.gpt_json.phrases[1], vocab_call.phrase_sync_words)

LookupValue(lookup, i) == [start |-> lookup[i].start, end |-> lookup[i].end]

(* the keys of the lookup with the highest similarity to k *)
BestKeys(lookup, k) ==
    { i \in 1..Len(lookup) :
        \A j \in 1..Len(lookup) :
            FracGE(fuzz_ratio(k, lookup[i].key), fuzz_ratio(k, lookup[j].key)) }

HasExactKey(lookup, k) == \E i \in 1..Len(lookup) : lookup[i].key = k

HasCloseKey(lookup, k) ==
    \E i \in 1..Len(lookup) : FracGE(fuzz_ratio(k, lookup[i].key), Whole(MIN_VOCAB_SCORE))

(* C26: match priority and threshold: a surface form whose key is in the    *)
(* lookup gets that key's window; otherwise, with a scorer, it gets the     *)
(* window of a best-scoring key if that key's similarity is at least 90;    *)
(* otherwise (a lower score, no scorer, no sync words) it has no timing.    *)
C26_MatchPriority ==
    found # << >> =>
        LET lookup == LookupOfCall
            k == norm_for_alignment(found[1].w.japanese)
        IN  IF HasExactKey(lookup, k)
            THEN \E i \in 1..Len(lookup) :
                    lookup[i].key = k /\ ResolvedWindow = LookupValue(lookup, i)
            ELSE IF FUZZY_MATCHING_AVAILABLE /\ HasCloseKey(lookup, k)
            THEN \E i \in BestKeys(lookup, k) : ResolvedWindow = LookupValue(lookup, i)
            ELSE ResolvedWindow = NoTiming

(* C26 witness: with the scorer, a surface form without an exact key got    *)
(* the window of a key that is not its own                                  *)
C26_Witness ==
    /\ found # << >>
    /\ FUZZY_MATCHING_AVAILABLE
    /\ ~HasExactKey(LookupOfCall, norm_for_alignment(found[1].w.japanese))
    /\ ResolvedWindow # NoTiming

----------------------------------------------------------------------------
(* Claims about accumulating in blocks *)

(* C27: private-map reduce equals sequential accumulation: the map obtained *)
(* by accumulating consecutive blocks of the recording's phrases into       *)
(* private maps and merging these in block order with the timing-wins rule  *)
(* is the map obtained by accumulating all phrases into one map.            *)
C27_ReduceEqualsSequential ==
    call # NoCall => call.reduced = vocab_map

(* C27 witness: in a recording cut into three blocks, the first block's     *)
(* entry of a surface form had no timing, the sequential map's entry has,   *)
(* and the last block's entry has another timing or meaning                 *)
C27_Witness ==
    /\ call # NoCall
    /\ Len(call.block_maps) = 3
    /\ \E s \in DOMAIN vocab_map :
          /\ s \in DOMAIN call.block_maps[1] /\ call.block_maps[1][s].start = None
          /\ vocab_map[s].start # None
          /\ s \in DOMAIN call.block_maps[3] /\ call.block_maps[3][s].start # None
          /\ call.block_maps[3][s] # vocab_map[s]

----------------------------------------------------------------------------
(* Claims about the words the hints leave out.  The fate of a word is the   *)
(* number of the hint whose group it joins, 0 when it is left out, and      *)
(* Len(utterances) + 1 when it is left over after the last hint.  It is     *)
(* told word by word: a word is held against the current hint; it is left   *)
(* out if it starts before the hint's window, joins the hint's group if it  *)
(* starts inside, and else is held against the next hint.                   *)

RECURSIVE Fates(_, _)
Fates(i, k) ==
    IF i > Len(all_words) THEN << >>
    ELSE IF k > Len(utterances) THEN <<k>> \o Fates(i + 1, k)
    ELSE IF all_words[i].start < utterances[k].start - 5 THEN <<0>> \o Fates(i + 1, k)
    ELSE IF all_words[i].start <= utterances[k].end + 5 THEN <<k>> \o Fates(i + 1, k)
    ELSE Fates(i, k + 1)

WithFate(fate, f) ==
    LET has(i) == fate[i] = f IN SelectSeq(Identity(Len(all_words)), has)

RECURSIVE GroupsByFate(_, _)
GroupsByFate(fate, k) ==
    IF k > Len(utterances) + 1 THEN << >>
    ELSE (IF WithFate(fate, k) # << >> THEN << WithFate(fate, k) >> ELSE << >>)
         \o GroupsByFate(fate, k + 1)

Increasing(seq) == \A i \in 1..(Len(seq) - 1) : seq[i] < seq[i + 1]

Members(seq) == { seq[i] : i \in 1..Len(seq) }

----------------------------------------------------------------------------
(* Claims about the window the fuzzy aligner selects.  A window is          *)
(* <<first, past-last>> in the code's indices.                              *)

Candidates ==
    { x \in Windows(call.idx, Len(deepgram_words)) :
        JoinNorm(deepgram_words, x[1], x[2]) # << >> }

Adjusted(x) ==
    LET text == JoinNorm(deepgram_words, x[1], x[2])
    IN  adj_score(fuzz_ratio(normalize_japanese(call.text), text), text)

(* x has the highest adjusted score, and among the windows with that score  *)
(* the fewest words, and among those the smallest start                     *)
Selected(x) ==
    \A y \in Candidates :
        \/ FracGT(Adjusted(x), Adjusted(y))
        \/ /\ Adjusted(x) = Adjusted(y)
           /\ \/ x[2] - x[1] < y[2] - y[1]
              \/ (x[2] - x[1] = y[2] - y[1] /\ x[1] <= y[1])

(* C29: the fuzzy aligner selects the window of highest adjusted score      *)
(* among the windows from the cursor on whose text is not empty, and among  *)
(* those tied at that score the one of fewest words and then of smallest    *)
(* start; it is the window returned when its score reaches the threshold.   *)
C29_MaximalChoice ==
    (Applicable /\ FUZZY_MATCHING_AVAILABLE) =>
        \A x \in Candidates :
            (Selected(x) /\ FracGT(Adjusted(x), Whole(0))) =>
                LET best == BestWindow(normalize_japanese(call.text), deepgram_words, call.idx)
                IN  /\ best = [score |-> Adjusted(x), si |-> x[1], ei |-> x[2] - 1]
                    /\ FracGE(Adjusted(x), Whole(MIN_MATCH_SCORE)) =>
                          call.r = Result(deepgram_words[x[1] + 1].start,
                                          deepgram_words[x[2]].end, Adjusted(x), x[2])
                    /\ ~FracGE(Adjusted(x), Whole(MIN_MATCH_SCORE)) =>
                          call.r = Remainder(deepgram_words, call.idx)

(* C29 witness: the returned window ties at the highest score with a window *)
(* of more words and with a window of as many words that starts later       *)
C29_Witness ==
    /\ Applicable
    /\ FUZZY_MATCHING_AVAILABLE
    /\ \E x \in Candidates :
          /\ Selected(x)
          /\ call.r = Result(deepgram_words[x[1] + 1].start, deepgram_words[x[2]].end,
                             Adjusted(x), x[2])
          /\ \E y \in Candidates : Adjusted(y) = Adjusted(x) /\ y[2] - y[1] > x[2] - x[1]
          /\ \E z \in Candidates :
                Adjusted(z) = Adjusted(x) /\ z[2] - z[1] = x[2] - x[1] /\ z[1] > x[1]

----------------------------------------------------------------------------
(* Claims about the order of the occurrences.  An occurrence is <<i, j>>:   *)
(* word j of phrase i of a recording; fnd[i][j] is what it resolved.        *)

OccurrencesOf(fnd, s) ==
    { x \in (1..Len(fnd)) \X (1..2) :
        x[2] <= Len(fnd[x[1]]) /\ fnd[x[1]][x[2]].w.japanese = s }

(* the occurrence resolved a window at least 0.15 s wide *)
IsTimed(f) == f.start # None /\ f.end - f.start >= 45

TimedOf(fnd, s) == { x \in OccurrencesOf(fnd, s) : IsTimed(fnd[x[1]][x[2]]) }

Earliest(S) ==
    CHOOSE x \in S : \A y \in S : x[1] < y[1] \/ (x[1] = y[1] /\ x[2] <= y[2])

OccValue(seq, x) == [phrase |-> seq[x[1]], word |-> x[2]]

(* what an occurrence stores when it is written *)
OccEntry(seq, fnd, x) ==
    LET f == fnd[x[1]][x[2]] IN
    [kanji |-> f.w.kanji, romaji |-> f.w.romaji, meaning |-> f.w.meaning,
     kanji_readings |-> KanjiReadings(seq[x[1]].kanji_explanations),
     start |-> IF IsTimed(f) THEN f.start ELSE None,
     end |-> IF IsTimed(f) THEN f.end ELSE None]

FirstTimedValue(seq, fnd, s) == OccValue(seq, Earliest(TimedOf(fnd, s)))

FirstTimedEntry(seq, fnd, s) == OccEntry(seq, fnd, Earliest(TimedOf(fnd, s)))

(* the keys and, key by key, the presence of timing are the same in both    *)
(* orders, and each order stores the entry of one of the key's occurrences  *)
SameKeysAndTiming ==
    /\ DOMAIN vocab_map = DOMAIN call.reordered
    /\ \A s \in DOMAIN vocab_map :
          /\ (vocab_map[s].start # None) <=> (TimedOf(call.found, s) # {})
          /\ (call.reordered[s].start # None) <=> (TimedOf(call.found, s) # {})
          /\ \E x \in OccurrencesOf(call.found, s) :
                vocab_map[s] = OccEntry(call.items, call.found, x)
          /\ \E x \in OccurrencesOf(call.found_order, s) :
                call.reordered[s] = OccEntry(call.order, call.found_order, x)

(* C30 as stated: the keys and the presence of timing do not depend on the  *)
(* order, and two orders whose first timed occurrence of a surface form is  *)
(* not the same occurrence give different maps.                             *)
C30_AnyOccurrence ==
    call # NoCall =>
        /\ SameKeysAndTiming
        /\ (\E s \in DOMAIN vocab_map :
               /\ TimedOf(call.found, s) # {}
               /\ FirstTimedValue(call.items, call.found, s)
                      # FirstTimedValue(call.order, call.found_order, s))
           => vocab_map # call.reordered

(* C30 amended: the keys and the presence of timing do not depend on the    *)
(* order; two orders whose first timed occurrences of a surface form differ *)
(* in a stored field or in the window give different maps, and a surface    *)
(* form whose first timed occurrences store the same in both orders has the *)
(* same entry in both maps.                                                 *)
C30_OrderSensitivity ==
    call # NoCall =>
        /\ SameKeysAndTiming
        /\ \A s \in DOMAIN vocab_map :
              TimedOf(call.found, s) # {} =>
                 IF FirstTimedEntry(call.items, call.found, s)
                        = FirstTimedEntry(call.order, call.found_order, s)
                 THEN vocab_map[s] = call.reordered[s]
                 ELSE vocab_map # call.reordered

(* C30 witness: two phrases with timed occurrences of the same surface form *)
(* were collected in both orders, and the maps have the same keys and        *)
(* different entries                                                        *)
C30_Witness ==
    /\ call # NoCall
    /\ Len(call.items) = 2
    /\ call.order = <<call.items[2], call.items[1]>>
    /\ DOMAIN vocab_map = DOMAIN call.reordered
    /\ \E s \in DOMAIN vocab_map :
          /\ vocab_map[s].start # None
          /\ call.reordered[s].start # None
          /\ vocab_map[s] # call.reordered[s]

====
